---- MODULE Spec2Model ----
(***************************************************************************)
(* The route planner of astar_routes.py: the geo-distance estimator        *)
(* (haversine_distance), the graph builder (create_city_graph), the A*     *)
(* pathfinder (a_star) and the embedded reference data (full_graph,        *)
(* city_coordinates).                                                      *)
(*                                                                         *)
(* Units.  Every distance is an integer number of metres: an edge of       *)
(* 0.8 km is 800, the heuristic's 1e6 km is 1000000000.  The reference     *)
(* weights are multiples of 0.1 km and are exact; a haversine value is     *)
(* the value the code computes, rounded to the metre.                      *)
(*                                                                         *)
(* Python values.  A dict is a function together with the sequence of its  *)
(* keys where the iteration order is read; None as a path is <<>>.         *)
(***************************************************************************)
EXTENDS Integers, Sequences, FiniteSets, TLC

VARIABLES
  graph,            \* a_star's argument graph
  source, target,   \* a_star's arguments
  g_score, f_score, \* a_star's score dicts
  pq, counter,      \* a_star's heap and its insertion counter
  came_from,        \* a_star's back-pointers
  pc,               \* "idle", "search" (inside the while loop), "done"
  outcome,          \* how the call ended: "none", "returned", "raised", "hung"
  dist, path,       \* the returned pair
  expanded,         \* the nodes whose neighbours were relaxed, in order
  prev,             \* the caller's record of the call before this one
  original_graph, allowed_cities, \* create_city_graph's arguments
  city_graph,       \* create_city_graph's result
  built,            \* whether create_city_graph has returned
  mem,              \* the dict objects of the builder's graphs
  request,          \* the JSON body of a POST to a find-route entry point
  session,          \* the Flask session of the request
  history_col,      \* the history collection
  fault,            \* which call of the handler raises unexpectedly
  response,         \* what the entry point answered
  calls,            \* the helpers the handler called, in order
  procs,            \* the frames of the concurrent a_star calls
  coordinates       \* get_coordinates_for_path's result

vars == << graph, source, target, g_score, f_score, pq, counter, came_from,
           pc, outcome, dist, path, expanded, prev,
           original_graph, allowed_cities, city_graph, built, mem,
           request, session, history_col, fault, response, calls,
           procs, coordinates >>

Range(s) == {s[i] : i \in 1..Len(s)}

(***************************************************************************)
(* Floats: a finite number of metres, +inf or nan.                         *)
(***************************************************************************)
Num(m) == [k |-> "fin", v |-> m]
PosInf == [k |-> "inf", v |-> 0]
NaN    == [k |-> "nan", v |-> 0]

IsFinite(a) == a.k = "fin"

\* a + b
FAdd(a, b) ==
  IF a.k = "nan" \/ b.k = "nan" THEN NaN
  ELSE IF a.k = "inf" \/ b.k = "inf" THEN PosInf
  ELSE Num(a.v + b.v)

\* a < b; every comparison with nan is False
FLess(a, b) ==
  /\ a.k = "fin"
  /\ \/ b.k = "inf"
     \/ b.k = "fin" /\ a.v < b.v

(***************************************************************************)
(* The objects float() is applied to (an edge weight of a source graph):   *)
(* a number, a string (a sequence of one-character strings), or None.      *)
(***************************************************************************)
PyNum(m)   == [t |-> "num",  f |-> Num(m), s |-> << >>]
PyFloat(x) == [t |-> "num",  f |-> x,      s |-> << >>]
PyStr(cs)  == [t |-> "str",  f |-> Num(0), s |-> cs]
PyNone     == [t |-> "none", f |-> Num(0), s |-> << >>]

Digits == <<"0", "1", "2", "3", "4", "5", "6", "7", "8", "9">>

DigitValue(c) == (CHOOSE i \in 1..Len(Digits) : Digits[i] = c) - 1

RECURSIVE DecimalValue(_, _)
DecimalValue(cs, n) ==
  IF n = 0 THEN 0 ELSE 10 * DecimalValue(cs, n - 1) + DigitValue(cs[n])

\* float(w) inside try/except: [ok |-> the conversion returned, val |-> its
\* value].  A number converts to itself; a string of decimal digits "d..d"
\* converts to that many kilometres; any other string of the modelled inputs
\* (letters, the empty string) raises ValueError and None raises TypeError.
ToFloat(w) ==
  CASE w.t = "num" -> [ok |-> TRUE, val |-> w.f]
    [] w.t = "str" ->
         IF Len(w.s) > 0 /\ \A i \in 1..Len(w.s) : w.s[i] \in Range(Digits)
         THEN [ok |-> TRUE, val |-> Num(1000 * DecimalValue(w.s, Len(w.s)))]
         ELSE [ok |-> FALSE, val |-> NaN]
    [] OTHER -> [ok |-> FALSE, val |-> NaN]

(***************************************************************************)
(* Dicts.                                                                  *)
(***************************************************************************)
EmptyDict == << >>

Get(d, key, default) == IF key \in DOMAIN d THEN d[key] ELSE default

DictSet(d, key, val) ==
  [x \in (DOMAIN d) \cup {key} |-> IF x = key THEN val ELSE d[x]]

\* A graph: keys is the dict's key order, adj[n] the adjacency of key n as
\* the sequence of its (neighbor, weight) items in iteration order.
KeySet(g) == Range(g.keys)

EmptyGraph == [keys |-> << >>, adj |-> EmptyDict]

Neighbors(g, n) == {g.adj[n][i][1] : i \in 1..Len(g.adj[n])}

(***************************************************************************)
(* The embedded reference data.                                            *)
(***************************************************************************)
(* Keys of city_coordinates, in the order of the table (astar_routes.py 83-91). *)

CoordCities ==
  << "Ballari", "Hospet", "Sandur", "Koppal",
     "Toranagallu", "Kampli", "Kudatini", "Daroji",
     "Emmiganur", "Gangavathi Junction", "Siruguppa", "Hampi",
     "Kamalapura", "Anegundi", "Chitradurga", "Gadag",
     "Adoni", "Raichur", "Donimalai" >>

HaversineRows ==
  <<
     << 0, 59137, 40355, 85359, 30130, 44447, 16029, 31176, 89377, 53175, 55229, 54069, 50257, 52853, 116207, 142234, 66608, 127191, 37634 >>,
     << 59137, 0, 26890, 26330, 29341, 28771, 43368, 29153, 128513, 23962, 69033, 11000, 11380, 14081, 115795, 83102, 103670, 146676, 32031 >>,
     << 40355, 26890, 0, 51502, 14404, 36456, 27981, 22543, 123424, 38827, 72204, 29607, 25470, 30920, 96824, 105952, 98871, 151323, 5147 >>,
     << 85359, 26330, 51502, 0, 55670, 49418, 69473, 54799, 148601, 41171, 86386, 32690, 35675, 34974, 127464, 57077, 124204, 159362, 56559 >>,
     << 30130, 29341, 14404, 55670, 0, 25702, 15197, 9129, 109267, 30934, 58218, 26414, 22102, 26241, 109023, 112275, 84625, 137154, 15461 >>,
     << 44447, 28771, 36456, 49418, 25702, 0, 29765, 17197, 100160, 9375, 40381, 18118, 17747, 15177, 133277, 105331, 75438, 118827, 39663 >>,
     << 16029, 43368, 27981, 69473, 15197, 29765, 0, 15171, 95946, 37925, 50680, 38044, 34234, 36883, 115545, 126448, 71701, 127695, 26875 >>,
     << 31176, 29153, 22543, 54799, 9129, 17197, 15171, 0, 103081, 23814, 49664, 22907, 19237, 21719, 118130, 111871, 78247, 128825, 24398 >>,
     << 89377, 128513, 123424, 148601, 109267, 100160, 95946, 103081, 0, 107547, 62978, 118237, 117146, 115335, 204232, 201350, 24900, 54736, 122810 >>,
     << 53175, 23962, 38827, 41171, 30934, 9375, 37925, 23814, 107547, 0, 46094, 13082, 15033, 10116, 134937, 96382, 83056, 122805, 42860 >>,
     << 55229, 69033, 72204, 86386, 58218, 40381, 50680, 49664, 62978, 46094, 0, 58141, 58128, 55079, 166009, 138374, 39902, 79255, 73648 >>,
     << 54069, 11000, 29607, 32690, 26414, 18118, 38044, 22907, 118237, 13082, 58141, 0, 4402, 3082, 123605, 89609, 93472, 135681, 34342 >>,
     << 50257, 11380, 25470, 35675, 22102, 17747, 34234, 19237, 117146, 15033, 58128, 4402, 0, 5550, 120297, 92742, 92296, 136382, 30108 >>,
     << 52853, 14081, 30920, 34974, 26241, 15177, 36883, 21719, 115335, 10116, 55079, 3082, 5550, 0, 125791, 91682, 90598, 132607, 35461 >>,
     << 116207, 115795, 96824, 127464, 109023, 133277, 115545, 118130, 204232, 134937, 166009, 123605, 120297, 125791, 0, 157386, 182600, 242787, 93870 >>,
     << 142234, 83102, 105952, 57077, 112275, 105331, 126448, 111871, 201350, 96382, 138374, 89609, 92742, 91682, 157386, 0, 177798, 202959, 110655 >>,
     << 66608, 103670, 98871, 124204, 84625, 75438, 71701, 78247, 24900, 83056, 39902, 93472, 92296, 90598, 182600, 177798, 0, 64549, 98476 >>,
     << 127191, 146676, 151323, 159362, 137154, 118827, 127695, 128825, 54736, 122805, 79255, 135681, 136382, 132607, 242787, 202959, 64549, 0, 152460 >>,
     << 37634, 32031, 5147, 56559, 15461, 39663, 26875, 24398, 122810, 42860, 73648, 34342, 30108, 35461, 93870, 110655, 98476, 152460, 0 >>
  >>

FullGraphKeys ==
  << "Ballari", "Hospet", "Sandur", "Koppal",
     "Toranagallu", "Kampli", "Kudatini", "Daroji",
     "Emmiganur", "Gangavathi Junction", "Siruguppa", "Ballari Fort",
     "Ballari Railway Station", "New Bus Stand", "Gadigi Palace", "Royal Circle",
     "Hospet Railway Station", "Hospet Bus Stand", "Tungabhadra Dam", "Sandur Bus Stand",
     "Kumaraswamy Temple", "Narihalla Dam", "Koppal Railway Station", "Koppal Bus Stand",
     "Koppal Fort", "Hampi", "Kamalapura", "Virupaksha Temple",
     "Vijaya Vittala Temple", "Daroji Bear Sanctuary", "Anegundi", "Chitradurga",
     "Gadag", "Adoni", "Raichur", "Donimalai",
     "Jindal Vidyanagar Airport" >>

FullGraphAdj ==
     "Ballari" :> << <<"Kudatini", PyNum(20000)>>, <<"Daroji", PyNum(35000)>>, <<"Toranagallu", PyNum(30000)>>, <<"Emmiganur", PyNum(30000)>>, <<"Siruguppa", PyNum(55000)>>, <<"Royal Circle", PyNum(3000)>>, <<"Ballari Railway Station", PyNum(4000)>>, <<"Chitradurga", PyNum(137000)>>, <<"Sandur", PyNum(53000)>>, <<"Hospet", PyNum(60000)>> >>
  @@
     "Hospet" :> << <<"Kudatini", PyNum(40000)>>, <<"Sandur", PyNum(30000)>>, <<"Gangavathi Junction", PyNum(15000)>>, <<"Toranagallu", PyNum(30000)>>, <<"Kampli", PyNum(35000)>>, <<"Koppal", PyNum(38000)>>, <<"Hospet Bus Stand", PyNum(2000)>>, <<"Tungabhadra Dam", PyNum(6000)>>, <<"Hampi", PyNum(13000)>>, <<"Kamalapura", PyNum(8000)>> >>
  @@
     "Sandur" :> << <<"Daroji", PyNum(20000)>>, <<"Hospet", PyNum(30000)>>, <<"Toranagallu", PyNum(28000)>>, <<"Sandur Bus Stand", PyNum(1000)>>, <<"Donimalai", PyNum(10000)>>, <<"Ballari", PyNum(53000)>> >>
  @@
     "Koppal" :> << <<"Gangavathi Junction", PyNum(20000)>>, <<"Hospet", PyNum(38000)>>, <<"Koppal Railway Station", PyNum(3000)>>, <<"Koppal Fort", PyNum(4000)>>, <<"Gadag", PyNum(61000)>>, <<"Hampi", PyNum(44000)>> >>
  @@
     "Toranagallu" :> << <<"Ballari", PyNum(30000)>>, <<"Hospet", PyNum(30000)>>, <<"Sandur", PyNum(28000)>>, <<"Daroji", PyNum(22000)>>, <<"Jindal Vidyanagar Airport", PyNum(5000)>> >>
  @@
     "Kampli" :> << <<"Emmiganur", PyNum(25000)>>, <<"Hospet", PyNum(35000)>>, <<"Gangavathi Junction", PyNum(35000)>>, <<"Siruguppa", PyNum(35000)>>, <<"Hampi", PyNum(15000)>> >>
  @@
     "Kudatini" :> << <<"Ballari", PyNum(20000)>>, <<"Hospet", PyNum(40000)>> >>
  @@
     "Daroji" :> << <<"Ballari", PyNum(35000)>>, <<"Sandur", PyNum(20000)>>, <<"Toranagallu", PyNum(22000)>>, <<"Daroji Bear Sanctuary", PyNum(16000)>> >>
  @@
     "Emmiganur" :> << <<"Ballari", PyNum(30000)>>, <<"Kampli", PyNum(25000)>> >>
  @@
     "Gangavathi Junction" :> << <<"Hospet", PyNum(15000)>>, <<"Koppal", PyNum(20000)>>, <<"Kampli", PyNum(35000)>>, <<"Anegundi", PyNum(14000)>>, <<"Raichur", PyNum(138000)>> >>
  @@
     "Siruguppa" :> << <<"Ballari", PyNum(55000)>>, <<"Kampli", PyNum(35000)>>, <<"Adoni", PyNum(43000)>> >>
  @@
     "Ballari Fort" :> << <<"Ballari Railway Station", PyNum(4000)>>, <<"Gadigi Palace", PyNum(2500)>>, <<"Royal Circle", PyNum(3000)>> >>
  @@
     "Ballari Railway Station" :> << <<"Ballari Fort", PyNum(4000)>>, <<"New Bus Stand", PyNum(3000)>>, <<"Ballari", PyNum(4000)>>, <<"Royal Circle", PyNum(800)>> >>
  @@
     "New Bus Stand" :> << <<"Ballari Railway Station", PyNum(3000)>>, <<"Gadigi Palace", PyNum(5000)>>, <<"Royal Circle", PyNum(2000)>> >>
  @@
     "Gadigi Palace" :> << <<"New Bus Stand", PyNum(5000)>>, <<"Ballari Fort", PyNum(2500)>> >>
  @@
     "Royal Circle" :> << <<"Ballari Fort", PyNum(3000)>>, <<"New Bus Stand", PyNum(2000)>>, <<"Ballari", PyNum(3000)>>, <<"Ballari Railway Station", PyNum(800)>> >>
  @@
     "Hospet Railway Station" :> << <<"Hospet Bus Stand", PyNum(1000)>>, <<"Hospet", PyNum(2000)>> >>
  @@
     "Hospet Bus Stand" :> << <<"Hospet Railway Station", PyNum(1000)>>, <<"Tungabhadra Dam", PyNum(5000)>>, <<"Hospet", PyNum(2000)>>, <<"Hampi", PyNum(12000)>> >>
  @@
     "Tungabhadra Dam" :> << <<"Hospet Bus Stand", PyNum(5000)>>, <<"Hospet", PyNum(6000)>> >>
  @@
     "Sandur Bus Stand" :> << <<"Kumaraswamy Temple", PyNum(12000)>>, <<"Narihalla Dam", PyNum(8000)>>, <<"Sandur", PyNum(1000)>> >>
  @@
     "Kumaraswamy Temple" :> << <<"Sandur Bus Stand", PyNum(12000)>>, <<"Narihalla Dam", PyNum(8000)>> >>
  @@
     "Narihalla Dam" :> << <<"Sandur Bus Stand", PyNum(8000)>>, <<"Kumaraswamy Temple", PyNum(8000)>> >>
  @@
     "Koppal Railway Station" :> << <<"Koppal Bus Stand", PyNum(2000)>>, <<"Koppal", PyNum(3000)>> >>
  @@
     "Koppal Bus Stand" :> << <<"Koppal Railway Station", PyNum(2000)>>, <<"Koppal Fort", PyNum(4000)>>, <<"Koppal", PyNum(3000)>> >>
  @@
     "Koppal Fort" :> << <<"Koppal Bus Stand", PyNum(4000)>>, <<"Koppal", PyNum(4000)>> >>
  @@
     "Hampi" :> << <<"Hospet", PyNum(13000)>>, <<"Kamalapura", PyNum(5000)>>, <<"Virupaksha Temple", PyNum(500)>>, <<"Vijaya Vittala Temple", PyNum(2000)>>, <<"Gangavathi Junction", PyNum(22000)>>, <<"Anegundi", PyNum(20000)>> >>
  @@
     "Kamalapura" :> << <<"Hospet", PyNum(8000)>>, <<"Hampi", PyNum(5000)>>, <<"Ballari", PyNum(60000)>> >>
  @@
     "Virupaksha Temple" :> << <<"Hampi", PyNum(500)>>, <<"Hospet", PyNum(13000)>> >>
  @@
     "Vijaya Vittala Temple" :> << <<"Hampi", PyNum(2000)>>, <<"Kamalapura", PyNum(6000)>> >>
  @@
     "Daroji Bear Sanctuary" :> << <<"Daroji", PyNum(16000)>>, <<"Hospet", PyNum(25000)>>, <<"Ballari", PyNum(40000)>> >>
  @@
     "Anegundi" :> << <<"Gangavathi Junction", PyNum(14000)>>, <<"Hampi", PyNum(20000)>> >>
  @@
     "Chitradurga" :> << <<"Ballari", PyNum(137000)>> >>
  @@
     "Gadag" :> << <<"Koppal", PyNum(61000)>> >>
  @@
     "Adoni" :> << <<"Siruguppa", PyNum(43000)>> >>
  @@
     "Raichur" :> << <<"Gangavathi Junction", PyNum(138000)>> >>
  @@
     "Donimalai" :> << <<"Sandur", PyNum(10000)>> >>
  @@
     "Jindal Vidyanagar Airport" :> << <<"Toranagallu", PyNum(5000)>>, <<"Ballari", PyNum(35000)>>, <<"Hospet", PyNum(30000)>> >>

full_graph == [keys |-> FullGraphKeys, adj |-> FullGraphAdj]

\* the heuristic's value when a coordinate is missing: 1e6 km
SENTINEL == 1000000000

CityIndex(c) == CHOOSE i \in 1..Len(CoordCities) : CoordCities[i] = c

\* haversine_distance with the distance of a city to itself taken as 0
\* before the coordinates are looked up
haversine_distance_self_zero(city1, city2) ==
  IF city1 = city2 THEN Num(0)
  ELSE IF city1 \notin Range(CoordCities) \/ city2 \notin Range(CoordCities)
  THEN Num(SENTINEL)
  ELSE Num(HaversineRows[CityIndex(city1)][CityIndex(city2)])

haversine_distance(city1, city2) ==
  IF city1 \notin Range(CoordCities) \/ city2 \notin Range(CoordCities)
  THEN Num(SENTINEL)
  ELSE Num(HaversineRows[CityIndex(city1)][CityIndex(city2)])

(***************************************************************************)
(* create_city_graph.                                                      *)
(***************************************************************************)
\* The allowed_cities argument: None, or a list of names.
AllowedNone == [isNone |-> TRUE, items |-> << >>]
AllowedList(xs) == [isNone |-> FALSE, items |-> xs]

\* lines 124-127: a falsy argument (None, an empty list) allows every key
AllowedSet(og, allowed) ==
  IF ~allowed.isNone /\ Len(allowed.items) > 0
  THEN Range(allowed.items)
  ELSE KeySet(og)

\* line 132, negated: the loop body runs for this city
Eligible(city, og, allowed_set) ==
  ~(city \notin allowed_set /\ city \notin KeySet(og))

\* FilteredConnections without the test of line 138
FilteredConnectionsDangling(connections, og) ==
  LET keep == SelectSeq(connections, LAMBDA e : ToFloat(e[2]).ok)
  IN  [i \in 1..Len(keep) |->
         << keep[i][1], PyFloat(ToFloat(keep[i][2]).val) >>]

\* lines 136-143: the items kept in filtered, in iteration order
FilteredConnections(connections, og) ==
  LET keep == SelectSeq(connections,
                LAMBDA e : e[1] \in KeySet(og) /\ ToFloat(e[2]).ok)
  IN  [i \in 1..Len(keep) |->
         << keep[i][1], PyFloat(ToFloat(keep[i][2]).val) >>]

\* BuildNodes without the test of line 144: a city is stored whether or not
\* filtered is empty
BuildNodesKeepEmpty(og, allowed_set) ==
  LET kept == SelectSeq(og.keys, LAMBDA c : Eligible(c, og, allowed_set))
  IN  [keys |-> kept,
       adj  |-> [c \in Range(kept) |-> FilteredConnections(og.adj[c], og)]]

\* lines 129-145: the first loop
BuildNodes(og, allowed_set) ==
  LET kept == SelectSeq(og.keys,
                LAMBDA c : /\ Eligible(c, og, allowed_set)
                           /\ Len(FilteredConnections(og.adj[c], og)) > 0)
  IN  [keys |-> kept,
       adj  |-> [c \in Range(kept) |-> FilteredConnections(og.adj[c], og)]]

RECURSIVE EnsureFrom(_, _, _)
\* lines 148-151 for cities[i..], the snapshot list(city_graph.keys()):
\* each neighbor of the city that is no key yet is appended with {}
EnsureFrom(cg, cities, i) ==
  IF i > Len(cities) THEN cg
  ELSE
    LET items == cg.adj[cities[i]]
        neighs == [j \in 1..Len(items) |-> items[j][1]]
        new == SelectSeq(neighs, LAMBDA n : n \notin KeySet(cg))
    IN  EnsureFrom(
          [keys |-> cg.keys \o new,
           adj  |-> [n \in KeySet(cg) \cup Range(new) |->
                       IF n \in KeySet(cg) THEN cg.adj[n] ELSE << >>]],
          cities, i + 1)

\* EnsureNeighbors without the second loop
EnsureNeighborsSkipped(cg) == cg

\* lines 148-151: the second loop
EnsureNeighbors(cg) == EnsureFrom(cg, cg.keys, 1)

create_city_graph(og, allowed) ==
  EnsureNeighbors(BuildNodes(og, AllowedSet(og, allowed)))

(***************************************************************************)
(* create_city_graph on dict objects.  A graph is a dict of dicts: the    *)
(* outer dict holds, for each key, a reference to the inner dict of its    *)
(* adjacency.  The memory is the sequence of the dict objects allocated so *)
(* far (a reference is an index into it, 0 is no object), the reference of *)
(* the source graph, the reference of the returned graph and the number    *)
(* of changes the caller has made to the returned graph.                   *)
(***************************************************************************)
NoMemory == [heap |-> << >>, src |-> 0, res |-> 0, changes |-> 0]

\* the dict object with the items in their order
DictObject(items) ==
  [keys |-> [i \in 1..Len(items) |-> items[i][1]],
   at   |-> [k \in {items[i][1] : i \in 1..Len(items)} |->
               items[CHOOSE i \in 1..Len(items) : items[i][1] = k][2]]]

\* d.items()
ItemsOf(d) == [i \in 1..Len(d.keys) |-> << d.keys[i], d.at[d.keys[i]] >>]

\* the graph the dict at ref holds, read through its references
GraphAt(m, ref) ==
  LET o == m.heap[ref] IN
  [keys |-> o.keys,
   adj  |-> [n \in Range(o.keys) |-> ItemsOf(m.heap[o.at[n]])]]

\* the dict objects a graph is made of
ObjectsOf(m, ref) ==
  IF ref = 0 THEN {}
  ELSE {ref} \cup {m.heap[ref].at[n] : n \in Range(m.heap[ref].keys)}

RECURSIVE LoadFrom(_, _, _, _)
LoadFrom(g, i, h, at) ==
  IF i > Len(g.keys) THEN [heap |-> h, at |-> at]
  ELSE LoadFrom(g, i + 1, Append(h, DictObject(g.adj[g.keys[i]])),
                Append(at, << g.keys[i], Len(h) + 1 >>))

\* a memory that holds the graph g as the source graph and nothing else
Load(g) ==
  LET l == LoadFrom(g, 1, << >>, << >>) IN
  [heap |-> Append(l.heap, DictObject(l.at)),
   src |-> Len(l.heap) + 1, res |-> 0, changes |-> 0]

\* StoreFiltered with the source's own dict stored when no item of it was
\* dropped or converted
StoreFilteredShared(h, connections, items) ==
  IF connections # 0 /\ ItemsOf(h[connections]) = items
  THEN [heap |-> h, ref |-> connections]
  ELSE [heap |-> Append(h, DictObject(items)), ref |-> Len(h) + 1]

\* lines 137 and 145, and line 151: the dict stored for a city of the
\* result is a new dict ({} filled by the loop, or the {} of setdefault);
\* connections is the reference of the source's dict for the city
StoreFiltered(h, connections, items) ==
  [heap |-> Append(h, DictObject(items)), ref |-> Len(h) + 1]

RECURSIVE StoreFrom(_, _, _, _, _)
\* the dicts of the result's cities cg.keys[i..], og the source's outer dict
StoreFrom(h, og, cg, i, at) ==
  IF i > Len(cg.keys) THEN [heap |-> h, at |-> at]
  ELSE LET c == cg.keys[i]
           connections == IF cg.adj[c] # << >> /\ c \in DOMAIN og.at
                          THEN og.at[c] ELSE 0
           s == StoreFiltered(h, connections, cg.adj[c])
       IN  StoreFrom(s.heap, og, cg, i + 1, Append(at, << c, s.ref >>))

\* create_city_graph on the source graph of the memory m: the memory after
\* the call, res the reference it returns (city_graph = {} of line 129)
create_city_graph_in(m, allowed) ==
  LET cg == create_city_graph(GraphAt(m, m.src), allowed)
      s  == StoreFrom(m.heap, m.heap[m.src], cg, 1, << >>)
  IN  [m EXCEPT !.heap = Append(s.heap, DictObject(s.at)),
                !.res = Len(s.heap) + 1]

\* dict[key] = val on the dict object d
SetItem(d, key, val) ==
  [keys |-> IF key \in Range(d.keys) THEN d.keys ELSE Append(d.keys, key),
   at   |-> DictSet(d.at, key, val)]

\* the caller changes the adjacency of city c in the returned graph:
\* result[c][n] = w, or result[c].clear()
ChangeIn(m, c, n, w, clear) ==
  LET ref == m.heap[m.res].at[c] IN
  [m EXCEPT !.heap[ref] = IF clear THEN DictObject(<< >>)
                          ELSE SetItem(m.heap[ref], n, w),
            !.changes = m.changes + 1]

(***************************************************************************)
(* a_star.                                                                 *)
(***************************************************************************)
None == << >>

\* a heap entry (f_score, g_score, counter, node)
Entry(f, g, seq, node) == [f |-> f, g |-> g, seq |-> seq, node |-> node]

\* TupleLess with entries of (f_score, g_score, node): no counter, and the
\* order of two entries of equal scores left open
TupleLessNoCounter(a, b) ==
  \/ FLess(a.f, b.f)
  \/ a.f = b.f /\ FLess(a.g, b.g)

\* TupleLess with the counter compared the other way round: of two entries
\* of equal scores the one pushed later is the lesser
TupleLessNewestFirst(a, b) ==
  \/ FLess(a.f, b.f)
  \/ a.f = b.f /\ FLess(a.g, b.g)
  \/ a.f = b.f /\ a.g = b.g /\ a.seq > b.seq

\* Python's tuple order on heap entries: the first component that differs
\* decides; the counter is unique, so the node is never compared.
TupleLess(a, b) ==
  \/ FLess(a.f, b.f)
  \/ a.f = b.f /\ FLess(a.g, b.g)
  \/ a.f = b.f /\ a.g = b.g /\ a.seq < b.seq

\* heapq.heappop: the entries no other entry is less than
PopCandidates(heap) == {e \in heap : \A o \in heap : ~TupleLess(o, e)}

\* heapq.heappop: the heap it leaves, e the entry it returns
HeapAfterPop(heap, e) == heap \ {e}

\* Stale with no entry ever taken for stale
StaleNever(e, gs, fs) == FALSE

\* Stale with >= for >
StaleOrEqual(e, gs, fs) ==
  \/ ~FLess(e.f, Get(fs, e.node, PosInf))
  \/ ~FLess(e.g, Get(gs, e.node, PosInf))

\* line 177
Stale(e, gs, fs) ==
  \/ FLess(Get(fs, e.node, PosInf), e.f)
  \/ FLess(Get(gs, e.node, PosInf), e.g)

\* line 193: graph.get(u, {}).items()
Adjacency(g, u) == IF u \in KeySet(g) THEN g.adj[u] ELSE << >>

\* lines 164-172: the locals when the loop is entered
InitialLocals(g, s, t) ==
  LET h == haversine_distance(s, t) IN
  [g_score   |-> [n \in KeySet(g) |-> IF n = s THEN Num(0) ELSE PosInf],
   f_score   |-> [n \in KeySet(g) |-> IF n = s THEN h ELSE PosInf],
   pq        |-> {Entry(h, Num(0), 0, s)},
   counter   |-> 0,
   came_from |-> EmptyDict,
   raised    |-> FALSE]

\* RelaxEdge with <= for < in line 199
RelaxEdgeOnTie(loc, u, v, w, t) ==
  LET c == ToFloat(w) IN
  IF loc.raised \/ ~c.ok THEN loc
  ELSE IF u \notin DOMAIN loc.g_score THEN [loc EXCEPT !.raised = TRUE]
  ELSE
    LET tentative_g == FAdd(loc.g_score[u], c.val) IN
    IF ~FLess(Get(loc.g_score, v, PosInf), tentative_g)
    THEN LET f == FAdd(tentative_g, haversine_distance(v, t)) IN
         [g_score   |-> DictSet(loc.g_score, v, tentative_g),
          f_score   |-> DictSet(loc.f_score, v, f),
          pq        |-> loc.pq \cup {Entry(f, tentative_g, loc.counter + 1, v)},
          counter   |-> loc.counter + 1,
          came_from |-> DictSet(loc.came_from, v, u),
          raised    |-> FALSE]
    ELSE loc

\* RelaxEdge with line 201 left out: the score is improved and the
\* back-pointer is not set
RelaxEdgeScoreOnly(loc, u, v, w, t) ==
  LET c == ToFloat(w) IN
  IF loc.raised \/ ~c.ok THEN loc
  ELSE IF u \notin DOMAIN loc.g_score THEN [loc EXCEPT !.raised = TRUE]
  ELSE
    LET tentative_g == FAdd(loc.g_score[u], c.val) IN
    IF FLess(tentative_g, Get(loc.g_score, v, PosInf))
    THEN LET f == FAdd(tentative_g, haversine_distance(v, t)) IN
         [g_score   |-> DictSet(loc.g_score, v, tentative_g),
          f_score   |-> DictSet(loc.f_score, v, f),
          pq        |-> loc.pq \cup {Entry(f, tentative_g, loc.counter + 1, v)},
          counter   |-> loc.counter + 1,
          came_from |-> loc.came_from,
          raised    |-> FALSE]
    ELSE loc

\* lines 194-206 for one item (v, w) of u's adjacency
RelaxEdge(loc, u, v, w, t) ==
  LET c == ToFloat(w) IN
  IF loc.raised \/ ~c.ok THEN loc
  ELSE IF u \notin DOMAIN loc.g_score THEN [loc EXCEPT !.raised = TRUE]
  ELSE
    LET tentative_g == FAdd(loc.g_score[u], c.val) IN
    IF FLess(tentative_g, Get(loc.g_score, v, PosInf))
    THEN LET f == FAdd(tentative_g, haversine_distance(v, t)) IN
         [g_score   |-> DictSet(loc.g_score, v, tentative_g),
          f_score   |-> DictSet(loc.f_score, v, f),
          pq        |-> loc.pq \cup {Entry(f, tentative_g, loc.counter + 1, v)},
          counter   |-> loc.counter + 1,
          came_from |-> DictSet(loc.came_from, v, u),
          raised    |-> FALSE]
    ELSE loc

RECURSIVE RelaxFrom(_, _, _, _, _)
\* line 193: the for loop over items i.. of u's adjacency
RelaxFrom(loc, u, items, i, t) ==
  IF i > Len(items) THEN loc
  ELSE RelaxFrom(RelaxEdge(loc, u, items[i][1], items[i][2], t),
                 u, items, i + 1, t)

RECURSIVE ReconstructPathStepFirst(_, _, _, _, _)
\* ReconstructPath as a loop that steps along came_from before it tests
\* for the source
ReconstructPathStepFirst(cf, s, cur, acc, fuel) ==
  IF fuel = 0 THEN [end |-> "hung", path |-> acc]
  ELSE IF cur \notin DOMAIN cf THEN [end |-> "broken", path |-> Append(acc, cur)]
  ELSE IF cf[cur] = s THEN [end |-> "ok", path |-> acc \o << cur, s >>]
  ELSE ReconstructPathStepFirst(cf, s, cf[cur], Append(acc, cur), fuel - 1)

RECURSIVE ReconstructPath(_, _, _, _, _)
\* lines 184-190: the while loop, the path so far in append order.  The
\* loop ends "ok" at the source, "broken" at a missing back-pointer, and
\* "hung" when it has taken more steps than there are back-pointers (it is
\* then in a cycle and never ends).
ReconstructPath(cf, s, cur, acc, fuel) ==
  IF cur = s THEN [end |-> "ok", path |-> Append(acc, s)]
  ELSE IF fuel = 0 THEN [end |-> "hung", path |-> acc]
  ELSE IF cur \notin DOMAIN cf THEN [end |-> "broken", path |-> Append(acc, cur)]
  ELSE ReconstructPath(cf, s, cf[cur], Append(acc, cur), fuel - 1)

\* Reverse with the path left in the order it was collected in
ReverseOmitted(s) == s

\* path.reverse()
Reverse(s) == [i \in 1..Len(s) |-> s[Len(s) + 1 - i]]

(***************************************************************************)
(* The calls.                                                              *)
(***************************************************************************)
NoCall == [source |-> "", target |-> "", outcome |-> "none",
           dist |-> PosInf, path |-> None]

builderVars == << original_graph, allowed_cities, city_graph, built, mem >>
localVars   == << g_score, f_score, pq, counter, came_from >>
facadeVars  == << request, session, history_col, fault, response, calls >>
frontVars   == << facadeVars, procs, coordinates >>

\* every name a graph mentions
Nodes(g) == KeySet(g) \cup UNION {Neighbors(g, n) : n \in KeySet(g)}

\* a name no graph mentions
Nowhere == "Nowhere"

\* Return with the result stored and the loop not left
ReturnAndContinue(d, p) ==
  /\ pc' = "search"
  /\ outcome' = "returned"
  /\ dist' = d
  /\ path' = p

\* a return statement of a_star
Return(d, p) ==
  /\ pc' = "done"
  /\ outcome' = "returned"
  /\ dist' = d
  /\ path' = p

\* a_star(graph, s, t) is called: lines 160-172.  The caller keeps the
\* result of the call before it; after a first call it asks the same query
\* again or the reverse one.
Call(s, t) ==
  /\ pc \in {"idle", "done"}
  /\ pc = "done" => {s, t} = {source, target}
  /\ prev' = IF pc = "done"
             THEN [source |-> source, target |-> target, outcome |-> outcome,
                   dist |-> dist, path |-> path]
             ELSE prev
  /\ source' = s
  /\ target' = t
  /\ expanded' = << >>
  /\ IF s \notin KeySet(graph) \/ t \notin KeySet(graph)
     THEN /\ Return(PosInf, None)
          /\ g_score' = EmptyDict /\ f_score' = EmptyDict /\ pq' = {}
          /\ counter' = 0 /\ came_from' = EmptyDict
     ELSE LET loc == InitialLocals(graph, s, t) IN
          /\ pc' = "search"
          /\ outcome' = "none"
          /\ dist' = PosInf /\ path' = None
          /\ g_score' = loc.g_score /\ f_score' = loc.f_score /\ pq' = loc.pq
          /\ counter' = loc.counter /\ came_from' = loc.came_from
  /\ UNCHANGED << graph, builderVars, frontVars >>

\* lines 180-191: the popped node is the target
ReachTarget ==
  LET r == ReconstructPath(came_from, source, target, << >>,
                           Cardinality(DOMAIN came_from) + 1)
  IN  CASE r.end = "ok" ->
             IF target \in DOMAIN g_score
             THEN Return(g_score[target], Reverse(r.path))
             ELSE /\ pc' = "done" /\ outcome' = "raised"
                  /\ UNCHANGED << dist, path >>
        [] r.end = "broken" -> Return(PosInf, None)
        [] OTHER -> /\ pc' = "done" /\ outcome' = "hung"
                    /\ UNCHANGED << dist, path >>

\* one test of the while condition, line 174, and the iteration it starts
\* (lines 175-206) or the return after the loop (line 208)
Iterate ==
  /\ pc = "search"
  /\ IF pq = {}
     THEN /\ Return(PosInf, None)
          /\ UNCHANGED << localVars, expanded >>
     ELSE \E e \in PopCandidates(pq) :
            LET u == e.node IN
            IF Stale(e, g_score, f_score)
            THEN /\ pq' = HeapAfterPop(pq, e)
                 /\ UNCHANGED << g_score, f_score, counter, came_from,
                                 pc, outcome, dist, path, expanded >>
            ELSE IF u = target
            THEN /\ ReachTarget
                 /\ pq' = HeapAfterPop(pq, e)
                 /\ UNCHANGED << g_score, f_score, counter, came_from,
                                 expanded >>
            ELSE LET loc == RelaxFrom(
                              [g_score |-> g_score, f_score |-> f_score,
                               pq |-> HeapAfterPop(pq, e), counter |-> counter,
                               came_from |-> came_from, raised |-> FALSE],
                              u, Adjacency(graph, u), 1, target)
                 IN /\ g_score' = loc.g_score /\ f_score' = loc.f_score
                    /\ pq' = loc.pq /\ counter' = loc.counter
                    /\ came_from' = loc.came_from
                    /\ expanded' = Append(expanded, u)
                    /\ IF loc.raised
                       THEN pc' = "done" /\ outcome' = "raised"
                       ELSE UNCHANGED << pc, outcome >>
                    /\ UNCHANGED << dist, path >>
  /\ UNCHANGED << graph, source, target, prev, builderVars, frontVars >>

\* create_city_graph(original_graph, allowed_cities) is called and returns
Build ==
  /\ ~built
  /\ city_graph' = create_city_graph(original_graph, allowed_cities)
  /\ built' = TRUE
  /\ UNCHANGED << graph, source, target, localVars, pc, outcome, dist, path,
                  expanded, prev, original_graph, allowed_cities, mem,
                  frontVars >>

\* create_city_graph(original_graph, allowed_cities) is called on the dict
\* objects of the memory and returns
BuildIn ==
  /\ ~built
  /\ mem.src # 0
  /\ LET m == create_city_graph_in(mem, allowed_cities) IN
       /\ mem' = m
       /\ city_graph' = GraphAt(m, m.res)
  /\ built' = TRUE
  /\ UNCHANGED << graph, source, target, localVars, pc, outcome, dist, path,
                  expanded, prev, original_graph, allowed_cities,
                  frontVars >>

(***************************************************************************)
(* a_star as one call: the loop of lines 174-206 run to its return.        *)
(***************************************************************************)
\* a frame of a_star: its arguments, its locals and, once it has ended,
\* what it returned
Frame(s, t, loc, ctl, out, d, p, exp) ==
  [source |-> s, target |-> t,
   g_score |-> loc.g_score, f_score |-> loc.f_score, pq |-> loc.pq,
   counter |-> loc.counter, came_from |-> loc.came_from,
   pc |-> ctl, outcome |-> out, dist |-> d, path |-> p, expanded |-> exp]

NoLocals ==
  [g_score |-> EmptyDict, f_score |-> EmptyDict, pq |-> {}, counter |-> 0,
   came_from |-> EmptyDict, raised |-> FALSE]

IdleFrame == Frame("", "", NoLocals, "idle", "none", PosInf, None, << >>)

LocalsOf(fr) ==
  [g_score |-> fr.g_score, f_score |-> fr.f_score, pq |-> fr.pq,
   counter |-> fr.counter, came_from |-> fr.came_from, raised |-> FALSE]

\* lines 160-172: the frame when the loop is entered, or the return of
\* line 161
EnterFrame(g, s, t) ==
  IF s \notin KeySet(g) \/ t \notin KeySet(g)
  THEN Frame(s, t, NoLocals, "done", "returned", PosInf, None, << >>)
  ELSE Frame(s, t, InitialLocals(g, s, t), "search", "none", PosInf, None,
             << >>)

\* lines 180-191 in a frame whose popped node is the target
ReachTargetIn(fr, loc) ==
  LET r == ReconstructPath(fr.came_from, fr.source, fr.target, << >>,
                           Cardinality(DOMAIN fr.came_from) + 1)
  IN  CASE r.end = "ok" ->
             IF fr.target \in DOMAIN fr.g_score
             THEN Frame(fr.source, fr.target, loc, "done", "returned",
                        fr.g_score[fr.target], Reverse(r.path), fr.expanded)
             ELSE Frame(fr.source, fr.target, loc, "done", "raised",
                        fr.dist, fr.path, fr.expanded)
        [] r.end = "broken" ->
             Frame(fr.source, fr.target, loc, "done", "returned",
                   PosInf, None, fr.expanded)
        [] OTHER ->
             Frame(fr.source, fr.target, loc, "done", "hung",
                   fr.dist, fr.path, fr.expanded)

\* one test of the while condition, line 174, in a frame, and the
\* iteration it starts (lines 175-206) or the return after the loop
\* (line 208)
IterateIn(g, fr) ==
  IF fr.pq = {}
  THEN [fr EXCEPT !.pc = "done", !.outcome = "returned",
                  !.dist = PosInf, !.path = None]
  ELSE LET e    == CHOOSE x \in PopCandidates(fr.pq) : TRUE
           rest == [LocalsOf(fr) EXCEPT !.pq = HeapAfterPop(fr.pq, e)]
       IN  IF Stale(e, fr.g_score, fr.f_score)
           THEN [fr EXCEPT !.pq = rest.pq]
           ELSE IF e.node = fr.target
           THEN ReachTargetIn(fr, rest)
           ELSE LET loc == RelaxFrom(rest, e.node, Adjacency(g, e.node), 1,
                                     fr.target)
                IN  Frame(fr.source, fr.target, loc,
                          IF loc.raised THEN "done" ELSE "search",
                          IF loc.raised THEN "raised" ELSE "none",
                          fr.dist, fr.path, Append(fr.expanded, e.node))

RECURSIVE RunLoop(_, _)
\* the while loop from a frame to the end of the call
RunLoop(g, fr) ==
  IF fr.pc # "search" THEN fr ELSE RunLoop(g, IterateIn(g, fr))

\* a_star(g, s, t) from call to return: the frame it ends in
a_star(g, s, t) == RunLoop(g, EnterFrame(g, s, t))

(***************************************************************************)
(* Text.  A Python str is the sequence of its characters; a place name     *)
(* that is a key of a graph is written as a string, and Spelling gives     *)
(* its characters.                                                         *)
(***************************************************************************)
UpperLetters ==
  << "A", "B", "C", "D", "E", "F", "G", "H", "I", "J", "K", "L", "M",
     "N", "O", "P", "Q", "R", "S", "T", "U", "V", "W", "X", "Y", "Z" >>
LowerLetters ==
  << "a", "b", "c", "d", "e", "f", "g", "h", "i", "j", "k", "l", "m",
     "n", "o", "p", "q", "r", "s", "t", "u", "v", "w", "x", "y", "z" >>

\* str.lower() on one character
LowerChar(c) ==
  IF c \in Range(UpperLetters)
  THEN LowerLetters[CHOOSE i \in 1..Len(UpperLetters) : UpperLetters[i] = c]
  ELSE c

\* str.lower()
Lower(cs) == [i \in 1..Len(cs) |-> LowerChar(cs[i])]

\* str.strip(), the blank being the only whitespace of the requests
Strip(cs) ==
  LET keep == {i \in 1..Len(cs) : cs[i] # " "} IN
  IF keep = {} THEN << >>
  ELSE SubSeq(cs, CHOOSE i \in keep : \A j \in keep : i <= j,
                  CHOOSE i \in keep : \A j \in keep : j <= i)

\* the characters of every place name of the reference graph
Spelling ==
     "Ballari" :> << "B", "a", "l", "l", "a", "r", "i" >>
  @@
     "Hospet" :> << "H", "o", "s", "p", "e", "t" >>
  @@
     "Sandur" :> << "S", "a", "n", "d", "u", "r" >>
  @@
     "Koppal" :> << "K", "o", "p", "p", "a", "l" >>
  @@
     "Toranagallu" :> << "T", "o", "r", "a", "n", "a", "g", "a", "l", "l", "u" >>
  @@
     "Kampli" :> << "K", "a", "m", "p", "l", "i" >>
  @@
     "Kudatini" :> << "K", "u", "d", "a", "t", "i", "n", "i" >>
  @@
     "Daroji" :> << "D", "a", "r", "o", "j", "i" >>
  @@
     "Emmiganur" :> << "E", "m", "m", "i", "g", "a", "n", "u", "r" >>
  @@
     "Gangavathi Junction" :> << "G", "a", "n", "g", "a", "v", "a", "t", "h", "i", " ", "J", "u", "n", "c", "t", "i", "o", "n" >>
  @@
     "Siruguppa" :> << "S", "i", "r", "u", "g", "u", "p", "p", "a" >>
  @@
     "Ballari Fort" :> << "B", "a", "l", "l", "a", "r", "i", " ", "F", "o", "r", "t" >>
  @@
     "Ballari Railway Station" :> << "B", "a", "l", "l", "a", "r", "i", " ", "R", "a", "i", "l", "w", "a", "y", " ", "S", "t", "a", "t", "i", "o", "n" >>
  @@
     "New Bus Stand" :> << "N", "e", "w", " ", "B", "u", "s", " ", "S", "t", "a", "n", "d" >>
  @@
     "Gadigi Palace" :> << "G", "a", "d", "i", "g", "i", " ", "P", "a", "l", "a", "c", "e" >>
  @@
     "Royal Circle" :> << "R", "o", "y", "a", "l", " ", "C", "i", "r", "c", "l", "e" >>
  @@
     "Hospet Railway Station" :> << "H", "o", "s", "p", "e", "t", " ", "R", "a", "i", "l", "w", "a", "y", " ", "S", "t", "a", "t", "i", "o", "n" >>
  @@
     "Hospet Bus Stand" :> << "H", "o", "s", "p", "e", "t", " ", "B", "u", "s", " ", "S", "t", "a", "n", "d" >>
  @@
     "Tungabhadra Dam" :> << "T", "u", "n", "g", "a", "b", "h", "a", "d", "r", "a", " ", "D", "a", "m" >>
  @@
     "Sandur Bus Stand" :> << "S", "a", "n", "d", "u", "r", " ", "B", "u", "s", " ", "S", "t", "a", "n", "d" >>
  @@
     "Kumaraswamy Temple" :> << "K", "u", "m", "a", "r", "a", "s", "w", "a", "m", "y", " ", "T", "e", "m", "p", "l", "e" >>
  @@
     "Narihalla Dam" :> << "N", "a", "r", "i", "h", "a", "l", "l", "a", " ", "D", "a", "m" >>
  @@
     "Koppal Railway Station" :> << "K", "o", "p", "p", "a", "l", " ", "R", "a", "i", "l", "w", "a", "y", " ", "S", "t", "a", "t", "i", "o", "n" >>
  @@
     "Koppal Bus Stand" :> << "K", "o", "p", "p", "a", "l", " ", "B", "u", "s", " ", "S", "t", "a", "n", "d" >>
  @@
     "Koppal Fort" :> << "K", "o", "p", "p", "a", "l", " ", "F", "o", "r", "t" >>
  @@
     "Hampi" :> << "H", "a", "m", "p", "i" >>
  @@
     "Kamalapura" :> << "K", "a", "m", "a", "l", "a", "p", "u", "r", "a" >>
  @@
     "Virupaksha Temple" :> << "V", "i", "r", "u", "p", "a", "k", "s", "h", "a", " ", "T", "e", "m", "p", "l", "e" >>
  @@
     "Vijaya Vittala Temple" :> << "V", "i", "j", "a", "y", "a", " ", "V", "i", "t", "t", "a", "l", "a", " ", "T", "e", "m", "p", "l", "e" >>
  @@
     "Daroji Bear Sanctuary" :> << "D", "a", "r", "o", "j", "i", " ", "B", "e", "a", "r", " ", "S", "a", "n", "c", "t", "u", "a", "r", "y" >>
  @@
     "Anegundi" :> << "A", "n", "e", "g", "u", "n", "d", "i" >>
  @@
     "Chitradurga" :> << "C", "h", "i", "t", "r", "a", "d", "u", "r", "g", "a" >>
  @@
     "Gadag" :> << "G", "a", "d", "a", "g" >>
  @@
     "Adoni" :> << "A", "d", "o", "n", "i" >>
  @@
     "Raichur" :> << "R", "a", "i", "c", "h", "u", "r" >>
  @@
     "Donimalai" :> << "D", "o", "n", "i", "m", "a", "l", "a", "i" >>
  @@
     "Jindal Vidyanagar Airport" :> << "J", "i", "n", "d", "a", "l", " ", "V", "i", "d", "y", "a", "n", "a", "g", "a", "r", " ", "A", "i", "r", "p", "o", "r", "t" >>

Spell(k) == Spelling[k]

\* name in city_graph, and the key that name is
HasKey(cg, name) == \E k \in KeySet(cg) : Spell(k) = name
KeyOf(cg, name) == CHOOSE k \in KeySet(cg) : Spell(k) = name

(***************************************************************************)
(* get_coordinates_for_path.                                               *)
(***************************************************************************)
\* city_coordinates, lines 83-91: for each of CoordCities its [lat, lon],
\* in units of 0.0001 degree
CoordinateRows ==
  <<
     << 151394, 769214 >>,
     << 152663, 763862 >>,
     << 150833, 765500 >>,
     << 153470, 761554 >>,
     << 151764, 766433 >>,
     << 154056, 766123 >>,
     << 151950, 767836 >>,
     << 152573, 766578 >>,
     << 157333, 774833 >>,
     << 154319, 765292 >>,
     << 156358, 769038 >>,
     << 153350, 764600 >>,
     << 153036, 764850 >>,
     << 153534, 764815 >>,
     << 142250, 763983 >>,
     << 154299, 756300 >>,
     << 156310, 772764 >>,
     << 162076, 773463 >>,
     << 150500, 765833 >>
  >>

\* an entry of the coordinate list: None, or the [lat, lon] of a city
NoCoordinate == [isNone |-> TRUE, lat |-> 0, lon |-> 0]
Coordinate(c) ==
  [isNone |-> FALSE, lat |-> CoordinateRows[CityIndex(c)][1],
                     lon |-> CoordinateRows[CityIndex(c)][2]]

\* lines 213-217 with every city skipped that has no coordinate
AppendCoordinateIfKnown(coords, city) ==
  IF city \in Range(CoordCities)
  THEN Append(coords, Coordinate(city))
  ELSE coords

\* lines 213-217: the body of the for loop
AppendCoordinate(coords, city) ==
  IF city \in Range(CoordCities)
  THEN Append(coords, Coordinate(city))
  ELSE Append(coords, NoCoordinate)

RECURSIVE CoordinatesFrom(_, _, _)
\* line 212: the for loop over the cities i.. of the path
CoordinatesFrom(p, i, coords) ==
  IF i > Len(p) THEN coords
  ELSE CoordinatesFrom(p, i + 1, AppendCoordinate(coords, p[i]))

get_coordinates_for_path(p) == CoordinatesFrom(p, 1, << >>)

(***************************************************************************)
(* The find-route entry points: find_route of app.py (POST /find-route)    *)
(* and find_route of astar_routes.py (POST /api/find-route).               *)
(***************************************************************************)
\* A field of the JSON body as the handler reads it (the value of the
\* chain data.get(..) or data.get(..)): missing, or a text.
Absent == [present |-> FALSE, text |-> << >>]
Text(cs) == [present |-> TRUE, text |-> cs]

\* Falsy that takes "" for a value
FalsyOnlyAbsent(v) == ~v.present

\* `not v`: None and "" are falsy
Falsy(v) == ~v.present \/ v.text = << >>

\* the result of a call that may raise: whether it raised, and the history
\* collection after it
Ended(raised, hc) == [raised |-> raised, history_col |-> hc]

\* a try block without its except clause
Uncaught(r) == r

\* try: ... except Exception: the exception is logged and dropped
\* (app.py 397-404, auth_routes.py 203-210)
Caught(r) == [r EXCEPT !.raised = FALSE]

\* history_col: None, or a collection whose insert_one raises or not
HistoryNone == [isNone |-> TRUE, failing |-> FALSE, rows |-> << >>]
History(failing) == [isNone |-> FALSE, failing |-> failing, rows |-> << >>]

\* history_col.insert_one(doc)
insert_one(hc, doc) ==
  IF hc.failing THEN Ended(TRUE, hc)
  ELSE Ended(FALSE, [hc EXCEPT !.rows = Append(hc.rows, doc)])

\* auth_routes.py 195-210; the timestamp of the row is left out
record_activity(email, action, meta, hc) ==
  IF email = "" \/ hc.isNone THEN Ended(FALSE, hc)
  ELSE Caught(insert_one(hc, [email |-> email, action |-> action,
                              meta |-> meta]))

\* app.py 395-404
Notify(sess, hc, meta) ==
  LET email == sess.user_email IN
  IF email # "" /\ ~hc.isNone
  THEN Caught(record_activity(email, "search_route", meta, hc))
  ELSE Ended(FALSE, hc)

\* round(x, 2) of a distance in metres, and round(x / 50, 2) in hundredths
\* of an hour.  The reference weights are multiples of 0.1 km, so no value
\* lies halfway between two results.
Round2(d) ==
  IF IsFinite(d) THEN Num(((d.v + 5) \div 10) * 10) ELSE d
TimeEstimate(d) ==
  IF IsFinite(d) THEN Num((d.v + 250) \div 500) ELSE d

\* JSON bodies: {"error": ..}, {"routes": .., "message": ..} and the
\* blueprint's {"from_city_name": .., "to_city_name": .., "routes": ..}
JsonError(msg) ==
  [error |-> msg, message |-> "", hasRoutes |-> FALSE, routes |-> << >>,
   names |-> << >>]
JsonRoutes(routes, msg) ==
  [error |-> "", message |-> msg, hasRoutes |-> TRUE, routes |-> routes,
   names |-> << >>]

\* a route of a response; the blueprint's constant fields "id" and
\* "traffic" are left out
Route(p, d, timeKnown) ==
  [path |-> p, coordinates |-> get_coordinates_for_path(p),
   distance |-> Round2(d),
   time |-> IF timeKnown THEN TimeEstimate(d) ELSE PosInf]

\* what a handler does: it returns a status and a body, or an exception
\* leaves it
Answer(status, body) == [raised |-> FALSE, status |-> status, body |-> body]
Propagated == [raised |-> TRUE, status |-> 0, body |-> JsonError("")]
NoAnswer == [raised |-> FALSE, status |-> 0, body |-> JsonError("")]

Handled(resp, hc, called) ==
  [response |-> resp, history_col |-> hc, calls |-> called]

\* no city: the None of match_city
NoCity == ""

\* match_city without the case-insensitive fallback
match_city_exact(name, cg) ==
  IF HasKey(cg, name) THEN KeyOf(cg, name) ELSE NoCity

\* app.py 354-362
match_city(name, cg) ==
  IF HasKey(cg, name) THEN KeyOf(cg, name)
  ELSE LET lname == Lower(name)
           hits  == SelectSeq(cg.keys, LAMBDA k : Lower(Spell(k)) = lname)
       IN  IF hits = << >> THEN NoCity ELSE hits[1]

\* astar_routes.py 252-256 and 257-261: a name that is no key becomes the
\* first key that equals it without regard to case, if there is one
CaseFallback(name, cg) ==
  IF HasKey(cg, name) THEN name
  ELSE LET hits == SelectSeq(cg.keys,
                             LAMBDA k : Lower(Spell(k)) = Lower(name))
       IN  IF hits = << >> THEN name ELSE Spell(hits[1])

\* the value of an expression that is computed once and then used: a
\* local variable of the handler
Only(S) == CHOOSE x \in S : TRUE

\* a_star having raised
RaisedFrame == [IdleFrame EXCEPT !.pc = "done", !.outcome = "raised"]

\* app.py 373-406: a_star is called for the cities frm and to of the graph
\* cg and has ended as the frame r
AnswerSearch(r, frm, to, sess, hc) ==
  IF r.outcome = "raised"
  THEN Handled(Answer(500, JsonError("Route search failed")),
               hc, << "create_city_graph", "a_star" >>)
  ELSE IF r.outcome = "hung"
  THEN Handled(NoAnswer, hc, << "create_city_graph", "a_star" >>)
  ELSE IF r.path = None
  THEN Handled(Answer(200, JsonRoutes(<< >>, "No route found.")),
               hc, << "create_city_graph", "a_star" >>)
  ELSE
    LET route == Route(r.path, r.dist, r.dist # PosInf)
        n == Notify(sess, hc,
                    [from |-> frm, to |-> to,
                     distance_km |-> Round2(r.dist)])
        called == << "create_city_graph", "a_star",
                     "get_coordinates_for_path" >>
                  \o (IF sess.user_email # "" /\ ~hc.isNone
                      THEN << "record_activity" >> ELSE << >>)
    IN  IF n.raised
        THEN Handled(Propagated, n.history_col, called)
        ELSE Handled(Answer(200, JsonRoutes(<< route >>, "")),
                     n.history_col, called)

\* app.py 354-377: the names are matched in the built graph cg as frm and
\* to, and a_star is called
SearchMatched(cg, frm, to, sess, hc, flt) ==
  IF frm = NoCity \/ to = NoCity
  THEN Handled(Answer(200, JsonRoutes(<< >>,
                 "One or both cities not found on server.")),
               hc, << "create_city_graph" >>)
  ELSE Only({ AnswerSearch(r, frm, to, sess, hc) :
              r \in { IF flt = "search" THEN RaisedFrame
                      ELSE a_star(cg, frm, to) } })

\* find_route of app.py, lines 330-406, for the request body req, the
\* session sess and the history collection hc.  flt names the helper that
\* raises unexpectedly in this request ("build", "search"), "helpers" is
\* the import of the helpers having failed (lines 340-345), "none" neither.
find_route(req, sess, hc, flt) ==
  LET frm_in == IF Falsy(req.from_city) THEN << >>
                ELSE Strip(req.from_city.text)
      to_in  == IF Falsy(req.to_city) THEN << >>
                ELSE Strip(req.to_city.text)
  IN
  IF Falsy(Text(frm_in)) \/ Falsy(Text(to_in))
  THEN Handled(Answer(400, JsonError("from_city and to_city required")),
               hc, << >>)
  ELSE IF flt = "helpers"
  THEN Handled(Answer(500, JsonRoutes(<< >>,
                 "Routing not available on server (A* helpers missing).")),
               hc, << >>)
  ELSE IF flt = "build"
  THEN Handled(Answer(500,
                 JsonError("Internal server error building graph")),
               hc, << "create_city_graph" >>)
  ELSE Only({ Only({ SearchMatched(cg, frm, to, sess, hc, flt) :
                     frm \in { match_city(frm_in, cg) },
                     to  \in { match_city(to_in, cg) } }) :
              cg \in { create_city_graph(full_graph, AllowedNone) } })

\* astar_routes.py 268-282: a_star is called for the keys from_city and
\* to_city and has ended as the frame r
ApiAnswerSearch(r, from_city, to_city, hc) ==
  IF r.outcome = "raised"
  THEN Handled(Propagated, hc, << "create_city_graph", "a_star" >>)
  ELSE IF r.outcome = "hung"
  THEN Handled(NoAnswer, hc, << "create_city_graph", "a_star" >>)
  ELSE IF r.path = None
  THEN Handled(Answer(404, JsonError("No route found")),
               hc, << "create_city_graph", "a_star" >>)
  ELSE Handled(
         Answer(200,
           [JsonRoutes(<< Route(r.path, r.dist, TRUE) >>, "")
              EXCEPT !.names = << from_city, to_city >>]),
         hc, << "create_city_graph", "a_star",
                "get_coordinates_for_path" >>)

\* astar_routes.py 251-270: the names after the fallback are from_city and
\* to_city; they are looked up in the built graph cg and a_star is called
ApiSearchMatched(cg, from_city, to_city, hc, flt) ==
  IF ~HasKey(cg, from_city)
  THEN Handled(Answer(404, JsonError("From-city not found on server")),
               hc, << "create_city_graph" >>)
  ELSE IF ~HasKey(cg, to_city)
  THEN Handled(Answer(404, JsonError("To-city not found on server")),
               hc, << "create_city_graph" >>)
  ELSE Only({ ApiAnswerSearch(r, KeyOf(cg, from_city), KeyOf(cg, to_city),
                              hc) :
              r \in { IF flt = "search" THEN RaisedFrame
                      ELSE a_star(cg, KeyOf(cg, from_city),
                                      KeyOf(cg, to_city)) } })

\* find_route of astar_routes.py, lines 233-282
api_find_route(req, hc, flt) ==
  IF Falsy(req.from_city) \/ Falsy(req.to_city)
  THEN Handled(Answer(400,
                 JsonError("Missing 'from_city' or 'to_city' in request body")),
               hc, << >>)
  ELSE IF flt = "build"
  THEN Handled(Propagated, hc, << "create_city_graph" >>)
  ELSE Only({ Only({ ApiSearchMatched(cg, from_city, to_city, hc, flt) :
                     from_city \in { CaseFallback(Strip(req.from_city.text),
                                                  cg) },
                     to_city   \in { CaseFallback(Strip(req.to_city.text),
                                                  cg) } }) :
              cg \in { create_city_graph(full_graph, AllowedNone) } })

\* the entry points answer the request
Unanswered == [by |-> "", answer |-> NoAnswer]

PostFindRoute ==
  /\ response = Unanswered
  /\ LET h == find_route(request, session, history_col, fault) IN
       /\ response' = [by |-> "/find-route", answer |-> h.response]
       /\ history_col' = h.history_col
       /\ calls' = h.calls
  /\ UNCHANGED << graph, source, target, localVars, pc, outcome, dist, path,
                  expanded, prev, builderVars, request, session, fault,
                  procs, coordinates >>

\* the blueprint is registered only when the helpers were imported
\* (app.py 95-106)
PostApiFindRoute ==
  /\ response = Unanswered
  /\ fault # "helpers"
  /\ LET h == api_find_route(request, history_col, fault) IN
       /\ response' = [by |-> "/api/find-route", answer |-> h.response]
       /\ history_col' = h.history_col
       /\ calls' = h.calls
  /\ UNCHANGED << graph, source, target, localVars, pc, outcome, dist, path,
                  expanded, prev, builderVars, request, session, fault,
                  procs, coordinates >>

(***************************************************************************)
(* Concurrent callers: every call of a_star has a frame of its own, and    *)
(* the calls read one graph.                                               *)
(***************************************************************************)
\* a caller: the query it made and the frame of its call
Caller(s, t, fr) == [source |-> s, target |-> t, frame |-> fr]
NoCaller == Caller("", "", IdleFrame)

\* FrameOf with the locals kept in one place for all calls
FrameOfFirst(ps, p) == ps[1].frame

\* the locals of a call are those of its own frame (lines 164-172)
FrameOf(ps, p) == ps[p].frame

\* caller p calls a_star(graph, s, t)
CallBy(p, s, t) ==
  /\ procs[p].frame.pc = "idle"
  /\ procs' = [procs EXCEPT ![p] = Caller(s, t, EnterFrame(graph, s, t))]
  /\ UNCHANGED << graph, source, target, localVars, pc, outcome, dist, path,
                  expanded, prev, builderVars, facadeVars, coordinates >>

\* the call of caller p makes one iteration of its loop
IterateBy(p) ==
  /\ FrameOf(procs, p).pc = "search"
  /\ procs' = [procs EXCEPT ![p].frame = IterateIn(graph, FrameOf(procs, p))]
  /\ UNCHANGED << graph, source, target, localVars, pc, outcome, dist, path,
                  expanded, prev, builderVars, facadeVars, coordinates >>

\* get_coordinates_for_path(path) is called and returns
GetCoordinates ==
  /\ ~coordinates.mapped
  /\ coordinates' = [mapped |-> TRUE, list |-> get_coordinates_for_path(path)]
  /\ UNCHANGED << graph, source, target, localVars, pc, outcome, dist, path,
                  expanded, prev, builderVars, facadeVars, procs >>

(***************************************************************************)
(* The inputs.                                                             *)
(***************************************************************************)
\* most edges of a four-node graph
MaxEdges == 4
\* largest weight of a three-node graph, in kilometres
MaxWeight == 1
\* most edges of a source graph given to the builder
MaxRawEdges == 3
\* number of concurrent callers of a_star
MaxCallers == 2
\* most nodes of a path given to get_coordinates_for_path
MaxPathLen == 3

\* two places with a coordinate, 4.4 km apart, and one with none
Names3 == << "Hampi", "Kamalapura", "Hospet Bus Stand" >>
Names4 == << "Hampi", "Kamalapura", "Gadag", "Hospet Bus Stand" >>

Pairs(names) ==
  {p \in Range(names) \X Range(names) : p[1] # p[2]}

\* The graph with the edges E weighted by wf.  A node's adjacency lists its
\* neighbors in the order of names; a node without edges of its own is a
\* key (with an empty adjacency) when sinks, and no key otherwise.
MkGraph(names, E, wf, sinks) ==
  LET keys == SelectSeq(names, LAMBDA n : sinks \/ \E e \in E : e[1] = n)
      Outs(n) == SelectSeq(names, LAMBDA m : << n, m >> \in E)
  IN  [keys |-> keys,
       adj  |-> [n \in Range(keys) |->
                   [i \in 1..Len(Outs(n)) |->
                      << Outs(n)[i], wf[<< n, Outs(n)[i] >>] >>]]]

GraphOver(g, names, weights, maxE) ==
  \E E \in SUBSET Pairs(names) :
    /\ Cardinality(E) <= maxE
    /\ \E wf \in [E -> weights] : \E sinks \in BOOLEAN :
         g = MkGraph(names, E, wf, sinks)

\* what the builder is not involved in
BuilderIdle ==
  /\ original_graph = EmptyGraph
  /\ allowed_cities = AllowedNone
  /\ city_graph = EmptyGraph
  /\ built = FALSE
  /\ mem = NoMemory

SearchIdle ==
  /\ source = "" /\ target = ""
  /\ g_score = EmptyDict /\ f_score = EmptyDict
  /\ pq = {} /\ counter = 0 /\ came_from = EmptyDict
  /\ pc = "idle" /\ outcome = "none"
  /\ dist = PosInf /\ path = None
  /\ expanded = << >>
  /\ prev = NoCall

\* no request, no concurrent caller, no coordinate list
NoRequest == [from_city |-> Absent, to_city |-> Absent]
NoSession == [user_email |-> ""]
NoCoordinates == [mapped |-> FALSE, list |-> << >>]

FrontIdle ==
  /\ request = NoRequest
  /\ session = NoSession
  /\ history_col = HistoryNone
  /\ fault = "none"
  /\ response = Unanswered
  /\ calls = << >>
  /\ procs = << >>
  /\ coordinates = NoCoordinates

\* a_star on every three-node graph with weights of 0..MaxWeight km and on
\* every four-node graph of at most MaxEdges edges of 1 km
Init ==
  /\ \/ GraphOver(graph, Names3, {PyNum(1000 * w) : w \in 0..MaxWeight}, 6)
     \/ GraphOver(graph, Names4, {PyNum(1000)}, MaxEdges)
  /\ SearchIdle
  /\ BuilderIdle
  /\ FrontIdle

Next ==
  \/ \E s, t \in Nodes(graph) \cup {Nowhere} : Call(s, t)
  \/ Iterate

Spec == Init /\ [][Next]_vars

\* a_star on the graph built from the reference graph
InitRef ==
  /\ graph = create_city_graph(full_graph, AllowedNone)
  /\ SearchIdle
  /\ BuilderIdle
  /\ FrontIdle

SpecRef == InitRef /\ [][Next]_vars

MaxLiveEdges == 2

\* The pathfinder with the loop of a_star always going on: a call that is in
\* its loop takes its next iteration (the interpreter runs the handler's
\* code to its end; nothing in a_star waits for anything).  The graphs are
\* the three-node graphs of at most MaxLiveEdges edges.

InitLive ==
  /\ GraphOver(graph, Names3, {PyNum(1000 * w) : w \in 0..MaxWeight},
               MaxLiveEdges)
  /\ SearchIdle
  /\ BuilderIdle
  /\ FrontIdle

SpecLive == InitLive /\ [][Next]_vars /\ WF_vars(Iterate)

\* the builder on every source graph over Names3 of at most MaxRawEdges
\* edges, any of them malformed, with every allowed_cities argument
RawWeights ==
  { PyNum(1000), PyNum(-1000), PyFloat(PosInf), PyFloat(NaN),
    PyStr(<< "7" >>), PyStr(<< "x" >>), PyNone }

RawGraph(keys, E, wf) ==
  LET Outs(n) == SelectSeq(Names3, LAMBDA m : << n, m >> \in E)
  IN  [keys |-> keys,
       adj  |-> [n \in Range(keys) |->
                   [i \in 1..Len(Outs(n)) |->
                      << Outs(n)[i], wf[<< n, Outs(n)[i] >>] >>]]]

SubSeqs(names) ==
  {SelectSeq(names, LAMBDA n : n \in S) : S \in SUBSET Range(names)}

InitBuild ==
  /\ \E keys \in SubSeqs(Names3) :
       \E E \in SUBSET {p \in Pairs(Names3) : p[1] \in Range(keys)} :
         /\ Cardinality(E) <= MaxRawEdges
         /\ \E wf \in [E -> RawWeights] :
              original_graph = RawGraph(keys, E, wf)
  /\ allowed_cities \in
       {AllowedNone} \cup {AllowedList(xs) : xs \in SubSeqs(Names3)}
  /\ city_graph = EmptyGraph
  /\ built = FALSE
  /\ mem = NoMemory
  /\ graph = EmptyGraph
  /\ SearchIdle
  /\ FrontIdle

NextBuild == Build

SpecBuild == InitBuild /\ [][NextBuild]_vars

\* The builder on dict objects, and a caller that afterwards changes the
\* graph it got back, at most MaxChanges times: on every source graph over
\* Names3 of at most MaxFrameEdges edges weighing 1 km, "7" or "x", without
\* an allowed list and with each list of one name.
MaxFrameEdges == 2
MaxChanges == 2

FrameWeights == { PyNum(1000), PyStr(<< "7" >>), PyStr(<< "x" >>) }

\* the caller changes the adjacency of a city of the returned graph
ChangeResult ==
  /\ built
  /\ mem.res # 0
  /\ mem.changes < MaxChanges
  /\ \E c \in Range(mem.heap[mem.res].keys) :
       \E n \in Range(Names3) : \E clear \in BOOLEAN :
         mem' = ChangeIn(mem, c, n, PyNum(5000), clear)
  /\ UNCHANGED << graph, source, target, localVars, pc, outcome, dist, path,
                  expanded, prev, original_graph, allowed_cities, city_graph,
                  built, frontVars >>

InitFrame ==
  /\ \E keys \in SubSeqs(Names3) :
       \E E \in SUBSET {p \in Pairs(Names3) : p[1] \in Range(keys)} :
         /\ Cardinality(E) <= MaxFrameEdges
         /\ \E wf \in [E -> FrameWeights] :
              original_graph = RawGraph(keys, E, wf)
  /\ allowed_cities \in
       {AllowedNone} \cup {AllowedList(<< n >>) : n \in Range(Names3)}
  /\ mem = Load(original_graph)
  /\ city_graph = EmptyGraph
  /\ built = FALSE
  /\ graph = EmptyGraph
  /\ SearchIdle
  /\ FrontIdle

NextFrame ==
  \/ BuildIn
  \/ ChangeResult

SpecFrame == InitFrame /\ [][NextFrame]_vars

\* The entry points on every request whose two names are among: no field,
\* "", blanks, "Ballari", "ballari", " HOSPET ", "Hospet" and "Nowhere";
\* with and without a signed-in user; with no history collection, a
\* working and a failing one; with each unexpected failure.
RawNames ==
  { Absent, Text(<< >>), Text(<< " ", " " >>),
    Text(Spell("Ballari")), Text(Lower(Spell("Ballari"))),
    Text(<< " ", "H", "O", "S", "P", "E", "T", " " >>),
    Text(Spell("Hospet")),
    Text(<< "N", "o", "w", "h", "e", "r", "e" >>) }

Faults == { "none", "helpers", "build", "search" }

InitFacade ==
  /\ request \in [from_city : RawNames, to_city : RawNames]
  /\ session \in { NoSession, [user_email |-> "user@example.com"] }
  /\ history_col \in { HistoryNone, History(FALSE), History(TRUE) }
  /\ fault \in Faults
  /\ response = Unanswered
  /\ calls = << >>
  /\ procs = << >>
  /\ coordinates = NoCoordinates
  /\ graph = EmptyGraph
  /\ SearchIdle
  /\ BuilderIdle

\* MaxCallers callers, each with one query between the places of
\* QueryNames, on the graph built from the reference graph
QueryNames == { "Ballari", "Hospet", "Hampi" }

InitCallers ==
  /\ graph = create_city_graph(full_graph, AllowedNone)
  /\ procs = [p \in 1..MaxCallers |-> NoCaller]
  /\ request = NoRequest
  /\ session = NoSession
  /\ history_col = HistoryNone
  /\ fault = "none"
  /\ response = Unanswered
  /\ calls = << >>
  /\ coordinates = NoCoordinates
  /\ SearchIdle
  /\ BuilderIdle

NextCallers ==
  \E p \in 1..MaxCallers :
    \/ \E s, t \in QueryNames : CallBy(p, s, t)
    \/ IterateBy(p)

SpecCallers == InitCallers /\ [][NextCallers]_vars

\* get_coordinates_for_path on every path of at most MaxPathLen nodes
\* among three places with a coordinate and two without
PathNames == { "Ballari", "Hospet", "Hampi", "Hospet Bus Stand", Nowhere }

InitCoordinates ==
  /\ \E n \in 0..MaxPathLen : path \in [1..n -> PathNames]
  /\ coordinates = NoCoordinates
  /\ graph = EmptyGraph
  /\ source = "" /\ target = ""
  /\ g_score = EmptyDict /\ f_score = EmptyDict
  /\ pq = {} /\ counter = 0 /\ came_from = EmptyDict
  /\ pc = "idle" /\ outcome = "none"
  /\ dist = PosInf
  /\ expanded = << >>
  /\ prev = NoCall
  /\ BuilderIdle
  /\ request = NoRequest
  /\ session = NoSession
  /\ history_col = HistoryNone
  /\ fault = "none"
  /\ response = Unanswered
  /\ calls = << >>
  /\ procs = << >>

NextCoordinates == GetCoordinates

SpecCoordinates == InitCoordinates /\ [][NextCoordinates]_vars

NextFacade == PostFindRoute \/ PostApiFindRoute

SpecFacade == InitFacade /\ [][NextFacade]_vars

(***************************************************************************)
(* Reference notions the properties are stated with.                       *)
(***************************************************************************)
\* the least of a non-empty set of floats without nan
FMin(S) == CHOOSE c \in S : \A o \in S : ~FLess(o, c)

\* the weight of the edge u -> v
EdgeWeight(g, u, v) ==
  LET i == CHOOSE j \in 1..Len(g.adj[u]) : g.adj[u][j][1] = v
  IN  ToFloat(g.adj[u][i][2]).val

HasEdge(g, u, v) == u \in KeySet(g) /\ v \in Neighbors(g, u)

RECURSIVE Settle(_, _, _)
\* Bellman-Ford: d after at most rounds more rounds of relaxing every edge
Settle(g, d, rounds) ==
  LET d2 == [v \in DOMAIN d |->
               FMin({d[v]} \cup
                    {FAdd(d[u], EdgeWeight(g, u, v)) :
                       u \in {x \in KeySet(g) : v \in Neighbors(g, x)}})]
  IN  IF rounds = 0 \/ d2 = d THEN d ELSE Settle(g, d2, rounds - 1)

\* the shortest-path distance from s to t in g, +inf when there is no path
ShortestDistance(g, s, t) ==
  Settle(g, [v \in Nodes(g) \cup {s, t} |-> IF v = s THEN Num(0) ELSE PosInf],
         Cardinality(Nodes(g)))[t]

PathExists(g, s, t) == IsFinite(ShortestDistance(g, s, t))

RECURSIVE PathWeight(_, _, _)
\* the sum of the weights of the edges p[i] -> p[i+1], ...
PathWeight(g, p, i) ==
  IF i >= Len(p) THEN Num(0)
  ELSE FAdd(EdgeWeight(g, p[i], p[i + 1]), PathWeight(g, p, i + 1))

IsPath(g, p) == \A i \in 1..(Len(p) - 1) : HasEdge(g, p[i], p[i + 1])

\* every edge has its reverse edge, with the same weight
Undirected(g) ==
  \A u \in KeySet(g) : \A v \in Neighbors(g, u) :
    HasEdge(g, v, u) /\ EdgeWeight(g, v, u) = EdgeWeight(g, u, v)

NonNegative(g) ==
  \A u \in KeySet(g) : \A v \in Neighbors(g, u) :
    IsFinite(EdgeWeight(g, u, v)) /\ EdgeWeight(g, u, v).v >= 0

Returned == pc = "done" /\ outcome = "returned"

InGraph == source \in KeySet(graph) /\ target \in KeySet(graph)

(***************************************************************************)
(* The pathfinder's properties, under Spec.                                *)
(***************************************************************************)
\* C1. Optimality: whenever a path from source to target exists in a graph
\* with non-negative weights, the distance a_star returns is the
\* shortest-path distance from source to target.
Optimality ==
  (Returned /\ InGraph /\ NonNegative(graph)
     /\ PathExists(graph, source, target))
    => dist = ShortestDistance(graph, source, target)

SameQueryAgain ==
  /\ prev.outcome # "none"
  /\ prev.source = source
  /\ prev.target = target

\* C2. Determinism: a second call of a_star on the same graph with the same
\* source and target ends as the first did, with the same distance and the
\* same path.
Determinism ==
  (pc = "done" /\ SameQueryAgain)
    => /\ outcome = prev.outcome
       /\ dist = prev.dist
       /\ path = prev.path

\* a second call has returned a three-node path while another path through
\* a different middle node costs the same
DeterminismWitness ==
  /\ Returned /\ SameQueryAgain
  /\ Len(path) = 3
  /\ \E b \in Nodes(graph) \ Range(path) :
       /\ IsPath(graph, << source, b, target >>)
       /\ PathWeight(graph, << source, b, target >>, 1) = dist
  /\ dist = ShortestDistance(graph, source, target)

ReverseQueryBefore ==
  /\ prev.outcome = "returned"
  /\ prev.source = target
  /\ prev.target = source

\* C3. Symmetry: on an undirected graph the distance a_star returns from A
\* to B is the distance it returns from B to A.
Symmetry ==
  (Returned /\ ReverseQueryBefore /\ Undirected(graph))
    => dist = prev.dist

\* C4. Not-found outcome: a_star never raises; when source or target is no
\* key it returns (inf, None) without expanding a node; when both are keys
\* and no path leads from source to target it returns (inf, None) with the
\* queue exhausted; when a path exists it returns a finite distance and a
\* path.
NotFoundOutcome ==
  /\ outcome \in {"none", "returned"}
  /\ pc = "done" =>
       IF ~InGraph
       THEN dist = PosInf /\ path = None /\ expanded = << >> /\ counter = 0
       ELSE IF ~PathExists(graph, source, target)
       THEN dist = PosInf /\ path = None /\ pq = {}
       ELSE IsFinite(dist) /\ path # None

\* a search between two keys with no path from the one to the other has
\* expanded two nodes, exhausted the queue and returned (inf, None)
NotFoundWitness ==
  /\ Returned /\ InGraph
  /\ ~PathExists(graph, source, target)
  /\ Len(expanded) >= 2
  /\ pq = {}
  /\ dist = PosInf /\ path = None

(***************************************************************************)
(* The builder's properties, under SpecBuild.                              *)
(***************************************************************************)
\* the weight object stored for the edge u -> v
StoredWeight(g, u, v) ==
  g.adj[u][CHOOSE j \in 1..Len(g.adj[u]) : g.adj[u][j][1] = v][2]

\* C5. Node existence: in the graph create_city_graph returns, every
\* neighbor in any node's adjacency is itself a key of the graph.
NodeExistence ==
  built => \A n \in KeySet(city_graph) :
             Neighbors(city_graph, n) \subseteq KeySet(city_graph)

\* the result holds a key with an empty adjacency that another key points
\* to and whose own edges in the source were all dropped
NodeExistenceWitness ==
  /\ built
  /\ \E n \in KeySet(city_graph) :
       /\ city_graph.adj[n] = << >>
       /\ original_graph.adj[n] # << >>
       /\ \E m \in KeySet(city_graph) : n \in Neighbors(city_graph, m)

\* C6. Graph sanitation: after the build, an edge of the source whose
\* neighbor is no key of the source is not in the result, an edge whose
\* weight float() rejects is not in the result, and every other edge of a
\* node of the allowed set (of any node, when that set is empty or absent)
\* is in the result with its weight converted.
GraphSanitation ==
  built =>
    \A c \in KeySet(original_graph) :
      \A i \in 1..Len(original_graph.adj[c]) :
        LET n == original_graph.adj[c][i][1]
            w == original_graph.adj[c][i][2]
        IN  /\ n \notin KeySet(original_graph) => ~HasEdge(city_graph, c, n)
            /\ ~ToFloat(w).ok => ~HasEdge(city_graph, c, n)
            /\ ( /\ n \in KeySet(original_graph)
                 /\ ToFloat(w).ok
                 /\ c \in AllowedSet(original_graph, allowed_cities) )
               => /\ HasEdge(city_graph, c, n)
                  /\ StoredWeight(city_graph, c, n) = PyFloat(ToFloat(w).val)

\* the source has an edge to a name that is no key and an edge to a key
\* with a weight that does not convert, neither of them in the result, and
\* an edge given as the string "7" that the result holds as 7 km
GraphSanitationWitness ==
  /\ built
  /\ \E c \in KeySet(original_graph) :
       \E n \in Neighbors(original_graph, c) :
         n \notin KeySet(original_graph) /\ ~HasEdge(city_graph, c, n)
  /\ \E c \in KeySet(original_graph) :
       \E n \in Neighbors(original_graph, c) :
         /\ n \in KeySet(original_graph)
         /\ ~ToFloat(StoredWeight(original_graph, c, n)).ok
         /\ ~HasEdge(city_graph, c, n)
  /\ \E c \in KeySet(original_graph) :
       \E n \in Neighbors(original_graph, c) :
         /\ StoredWeight(original_graph, c, n) = PyStr(<< "7" >>)
         /\ HasEdge(city_graph, c, n)
         /\ StoredWeight(city_graph, c, n) = PyNum(7000)

\* C7. Non-negative weights: every edge weight of the graph
\* create_city_graph returns is a non-negative finite number.
NonNegativeWeights == built => NonNegative(city_graph)

AllowedGiven == ~allowed_cities.isNone /\ Len(allowed_cities.items) > 0

\* C8. Allowed-node restriction: built with a non-empty allowed set, every
\* node of the result with a non-empty adjacency is in the allowed set;
\* built with an empty or absent one, every source node with an edge that
\* is kept has its adjacency in the result.
AllowedRestriction ==
  built =>
    IF AllowedGiven
    THEN \A n \in KeySet(city_graph) :
           city_graph.adj[n] # << >> => n \in Range(allowed_cities.items)
    ELSE \A c \in KeySet(original_graph) :
           FilteredConnections(original_graph.adj[c], original_graph) # << >>
             => /\ c \in KeySet(city_graph)
                /\ city_graph.adj[c] =
                     FilteredConnections(original_graph.adj[c], original_graph)

(***************************************************************************)
(* The scenarios on the reference graph, under SpecRef.                    *)
(***************************************************************************)
\* C9. Ballari to Gadag: the returned path starts at Ballari and reaches
\* Gadag through Koppal, the distance is the sum of the weights along the
\* path, and it is the shortest-path distance from Ballari to Gadag in the
\* built graph.
BallariToGadag ==
  (pc = "done" /\ source = "Ballari" /\ target = "Gadag")
    => /\ outcome = "returned"
       /\ Len(path) >= 3
       /\ path[1] = "Ballari"
       /\ path[Len(path) - 1] = "Koppal"
       /\ path[Len(path)] = "Gadag"
       /\ IsPath(graph, path)
       /\ dist = PathWeight(graph, path, 1)
       /\ dist = ShortestDistance(graph, "Ballari", "Gadag")

\* C10. Ballari to Hospet: the call returns 60 km and the path of the
\* direct edge, [Ballari, Hospet].
BallariToHospet ==
  (pc = "done" /\ source = "Ballari" /\ target = "Hospet")
    => /\ outcome = "returned"
       /\ dist = Num(60000)
       /\ path = << "Ballari", "Hospet" >>

\* the call has returned the direct edge while a path through a third
\* place has the same total weight
BallariToHospetWitness ==
  /\ Returned /\ source = "Ballari" /\ target = "Hospet"
  /\ path = << "Ballari", "Hospet" >>
  /\ \E b \in KeySet(graph) :
       /\ IsPath(graph, << "Ballari", b, "Hospet" >>)
       /\ PathWeight(graph, << "Ballari", b, "Hospet" >>, 1) = dist

(***************************************************************************)
(* The entry points.                                                       *)
(***************************************************************************)
Answered == response.by # ""

\* a field that is missing or empty
Lacks(v) == ~v.present \/ v.text = << >>

\* the graph every request is answered on
ServedGraph == create_city_graph(full_graph, AllowedNone)

\* the name a field gives once the blanks around it are removed
Given(v) == Strip(v.text)

\* the positions of the keys of g that equal name when case is ignored
CaseMatches(name, g) ==
  {i \in 1..Len(g.keys) : Lower(Spell(g.keys[i])) = Lower(name)}

\* what a name stands for: the key it spells; else the first key, in the
\* order of the keys, it equals when case is ignored; else no city
Resolution(name, g) ==
  IF \E k \in KeySet(g) : Spell(k) = name
  THEN CHOOSE k \in KeySet(g) : Spell(k) = name
  ELSE IF CaseMatches(name, g) # {}
  THEN g.keys[CHOOSE i \in CaseMatches(name, g) :
                \A j \in CaseMatches(name, g) : i <= j]
  ELSE NoCity

\* the request with each resolved name spelt exactly as its key
ExactRequest ==
  [from_city |-> Text(Spell(Resolution(Given(request.from_city), ServedGraph))),
   to_city   |-> Text(Spell(Resolution(Given(request.to_city), ServedGraph)))]

\* what the entry point that answered answers to another request
AnswerTo(req) ==
  IF response.by = "/find-route"
  THEN find_route(req, session, history_col, fault).response
  ELSE api_find_route(req, history_col, fault).response

BothGiven ==
  /\ ~Lacks(request.from_city) /\ Given(request.from_city) # << >>
  /\ ~Lacks(request.to_city) /\ Given(request.to_city) # << >>

BothResolved ==
  /\ BothGiven
  /\ Resolution(Given(request.from_city), ServedGraph) # NoCity
  /\ Resolution(Given(request.to_city), ServedGraph) # NoCity

\* C11: A name that is a key of the graph resolves to itself; any other
\* name resolves to the first key, in the order of the keys, that equals it
\* when case is ignored, and to nothing when there is none.  A request that
\* no failure interrupts and whose names resolve is answered with the path
\* and the distance of the request that spells the keys exactly; a request
\* with a name that does not resolve is answered without a route.
EndpointResolution ==
  (Answered /\ BothGiven /\ fault = "none") =>
    LET f  == Given(request.from_city)
        t  == Given(request.to_city)
        rf == Resolution(f, ServedGraph)
        rt == Resolution(t, ServedGraph)
    IN  /\ match_city(f, ServedGraph) = rf
        /\ match_city(t, ServedGraph) = rt
        /\ HasKey(ServedGraph, CaseFallback(f, ServedGraph)) <=> rf # NoCity
        /\ rf # NoCity => CaseFallback(f, ServedGraph) = Spell(rf)
        /\ rt # NoCity => CaseFallback(t, ServedGraph) = Spell(rt)
        /\ IF rf # NoCity /\ rt # NoCity
           THEN /\ response.answer.status = 200
                /\ Len(response.answer.body.routes) = 1
                /\ response.answer.body.routes[1].path[1] = rf
                /\ response.answer.body.routes =
                     AnswerTo(ExactRequest).body.routes
           ELSE response.answer.body.routes = << >>

\* a request that spells "ballari" and " HOSPET " has been answered with
\* the route from Ballari to Hospet
EndpointResolutionWitness ==
  /\ Answered
  /\ request.from_city = Text(Lower(Spell("Ballari")))
  /\ request.to_city = Text(<< " ", "H", "O", "S", "P", "E", "T", " " >>)
  /\ response.answer.status = 200
  /\ Len(response.answer.body.routes) = 1
  /\ response.answer.body.routes[1].path = << "Ballari", "Hospet" >>
  /\ response.answer.body.routes[1].distance = Num(60000)

\* C12: When a name of the request resolves to no city, or no path joins
\* the two cities, every entry point answers with status 200, an empty
\* list of routes and a message.
NotFoundResponses ==
  (Answered /\ BothGiven /\ fault = "none"
     /\ (\/ ~BothResolved
         \/ a_star(ServedGraph,
                   Resolution(Given(request.from_city), ServedGraph),
                   Resolution(Given(request.to_city), ServedGraph)).path
              = None)) =>
    /\ ~response.answer.raised
    /\ response.answer.status = 200
    /\ response.answer.body.hasRoutes
    /\ response.answer.body.routes = << >>
    /\ response.answer.body.message # ""

\* C13: A request that lacks the from or the to name is answered with
\* status 400 and an error message; a_star is not called and the history
\* collection is not written.
InputError ==
  (Answered /\ (Lacks(request.from_city) \/ Lacks(request.to_city))) =>
    /\ ~response.answer.raised
    /\ response.answer.status = 400
    /\ response.answer.body.error # ""
    /\ response.answer.body.routes = << >>
    /\ calls = << >>
    /\ history_col.rows = << >>

\* a signed-in user's request without a from name has been answered, the
\* history collection working
InputErrorWitness ==
  /\ Answered
  /\ request.from_city = Absent
  /\ request.to_city = Text(Spell("Hospet"))
  /\ session.user_email # ""
  /\ ~history_col.isNone /\ ~history_col.failing
  /\ fault = "none"
  /\ response.answer.status = 400

\* the response carries one route
Succeeded ==
  /\ ~response.answer.raised
  /\ response.answer.status = 200
  /\ Len(response.answer.body.routes) = 1

\* C14: The history collection is written, and record_activity is called,
\* only after a route has been computed, by a request that is answered
\* with that route; when the write fails the answer is the one given when
\* it succeeds.
BestEffortNotification ==
  Answered =>
    /\ (history_col.rows # << >> \/ "record_activity" \in Range(calls)) =>
         /\ Succeeded
         /\ calls = << "create_city_graph", "a_star",
                       "get_coordinates_for_path", "record_activity" >>
    /\ (response.by = "/find-route" /\ ~history_col.isNone
          /\ history_col.failing /\ session.user_email # ""
          /\ BothResolved /\ fault = "none") =>
         /\ Succeeded
         /\ "record_activity" \in Range(calls)
         /\ response.answer =
              find_route(request, session, History(FALSE), fault).response

\* a signed-in user's request has been answered with a route while the
\* history collection fails
BestEffortNotificationWitness ==
  /\ Answered
  /\ response.by = "/find-route"
  /\ session.user_email # ""
  /\ ~history_col.isNone /\ history_col.failing
  /\ "record_activity" \in Range(calls)
  /\ Succeeded
  /\ response.answer.body.routes[1].path = << "Ballari", "Hospet" >>

\* C15: When create_city_graph or a_star raises, every entry point catches
\* the exception and answers with status 500 and a message, without a
\* route and without a write to the history collection.
FailureContainment ==
  (Answered
     /\ \/ fault = "build" /\ "create_city_graph" \in Range(calls)
        \/ fault = "search" /\ "a_star" \in Range(calls)) =>
    /\ ~response.answer.raised
    /\ response.answer.status = 500
    /\ response.answer.body.error # "" \/ response.answer.body.message # ""
    /\ response.answer.body.routes = << >>
    /\ "record_activity" \notin Range(calls)
    /\ history_col.rows = << >>

(***************************************************************************)
(* Concurrent callers.                                                     *)
(***************************************************************************)
\* what a frame's call returned
ResultOf(fr) == [outcome |-> fr.outcome, dist |-> fr.dist, path |-> fr.path]

\* C16: Whatever the interleaving of the callers' steps, every call
\* returns what the same call returns when it runs alone, and the graph
\* the calls read is the one they started with.
CallerIsolation ==
  /\ graph = ServedGraph
  /\ \A p \in 1..MaxCallers :
       procs[p].frame.pc = "done" =>
         ResultOf(procs[p].frame) =
           ResultOf(a_star(graph, procs[p].source, procs[p].target))

\* the first caller has its route from Ballari to Hampi while the second,
\* asking for another route, is in the middle of its loop
CallerIsolationWitness ==
  /\ procs[1].frame.pc = "done"
  /\ procs[1].frame.path = << "Ballari", "Hospet", "Hampi" >>
  /\ procs[2].frame.pc = "search"
  /\ procs[2].source = "Hampi" /\ procs[2].target = "Ballari"
  /\ procs[2].frame.expanded # << >>

(***************************************************************************)
(* The coordinate list.                                                    *)
(***************************************************************************)
\* C17: The list get_coordinates_for_path returns has the length of the
\* path, and its i-th entry is the coordinate of the i-th node of the path,
\* or None when city_coordinates has no entry for that node.
CoordinateMapping ==
  coordinates.mapped =>
    /\ Len(coordinates.list) = Len(path)
    /\ \A i \in 1..Len(path) :
         IF \E j \in 1..Len(CoordCities) : CoordCities[j] = path[i]
         THEN LET j == CHOOSE j \in 1..Len(CoordCities) :
                         CoordCities[j] = path[i]
              IN  /\ ~coordinates.list[i].isNone
                  /\ coordinates.list[i].lat = CoordinateRows[j][1]
                  /\ coordinates.list[i].lon = CoordinateRows[j][2]
         ELSE coordinates.list[i] = NoCoordinate

\* the list of a path whose second node has no coordinate
CoordinateMappingWitness ==
  /\ coordinates.mapped
  /\ path = << "Ballari", "Hospet Bus Stand", "Hampi" >>
  /\ Len(coordinates.list) = 3
  /\ coordinates.list[2].isNone
  /\ coordinates.list[3].lat = 153350 /\ coordinates.list[3].lon = 764600

(***************************************************************************)
(* The reference graph, and what a_star returns.                           *)
(***************************************************************************)
\* C18: Every edge of full_graph has a reverse edge of the same weight,
\* and so has every edge of the graph built from it.
UndirectedReference == Undirected(full_graph) /\ Undirected(graph)

\* C19: On a graph without negative weights a returned path starts at the
\* source, ends at the target, follows edges of the graph, and the
\* returned distance is the sum of the weights of these edges.
ResultConsistency ==
  (Returned /\ path # None /\ NonNegative(graph)) =>
    /\ path[1] = source
    /\ path[Len(path)] = target
    /\ IsPath(graph, path)
    /\ dist = PathWeight(graph, path, 1)

\* a path of three nodes has been returned
ResultConsistencyWitness ==
  /\ Returned
  /\ NonNegative(graph)
  /\ Len(path) = 3
  /\ source # target
  /\ IsFinite(dist) /\ dist.v > 0

\* the (f, g, seq) of entry a comes before that of entry b
ComesBefore(a, b) ==
  \/ FLess(a.f, b.f)
  \/ a.f = b.f /\ FLess(a.g, b.g)
  \/ a.f = b.f /\ a.g = b.g /\ a.seq < b.seq

\* the entries a step takes off the queue, and those it puts on it
Popped == pq \ pq'
Pushed == pq' \ pq

\* C20: An iteration pops the one queued entry whose (f, g, seq) comes
\* before that of every other; every push takes a sequence number larger
\* than all before it, so no two queued entries have the same; and of the
\* entries with the popped entry's f and g the popped one was pushed first.
TieBreaking ==
  [][(pc = "search" /\ pq # {}) =>
       /\ \A a, b \in pq : a.seq = b.seq => a = b
       /\ \A a \in pq : a.seq <= counter
       /\ Cardinality(Popped) = 1
       /\ \A e \in Popped :
            /\ \A o \in pq \ {e} : ComesBefore(e, o)
            /\ \A o \in pq : (o.f = e.f /\ o.g = e.g) => e.seq <= o.seq
       /\ \A n \in Pushed : counter < n.seq /\ n.seq <= counter'
       /\ Cardinality({n.seq : n \in Pushed}) = counter' - counter
       /\ Cardinality(Pushed) = counter' - counter]_vars

\* two entries of the same f and g are queued
TieBreakingWitness ==
  /\ pc = "search"
  /\ \E a, b \in pq : a.f = b.f /\ a.g = b.g /\ a.seq < b.seq

(***************************************************************************)
(* Inside the loop of a_star.                                              *)
(***************************************************************************)
\* the recorded scores of a queued entry are not those its node has now
Outdated(e) ==
  \/ e.f # Get(f_score, e.node, PosInf)
  \/ e.g # Get(g_score, e.node, PosInf)

\* C21: A queued entry never has an f or a g below the current score of
\* its node.  A popped entry whose f or g is not the current one is
\* discarded: no node is expanded, no score changes and the loop goes on;
\* a popped entry with the current scores is expanded or ends the call.
StaleEntries ==
  [][(pc = "search" /\ pq # {}) =>
       /\ \A e \in pq :
            /\ ~FLess(e.f, Get(f_score, e.node, PosInf))
            /\ ~FLess(e.g, Get(g_score, e.node, PosInf))
       /\ \A e \in Popped :
            IF Outdated(e)
            THEN /\ expanded' = expanded
                 /\ pc' = "search"
                 /\ pq' = pq \ {e}
                 /\ UNCHANGED << g_score, f_score, came_from, counter >>
            ELSE \/ pc' = "done"
                 \/ expanded' = Append(expanded, e.node)]_vars

\* the entry about to be popped has a g above the current one of its node
StaleEntriesWitness ==
  /\ pc = "search"
  /\ expanded # << >>
  /\ \E e \in PopCandidates(pq) :
       /\ e.node \in DOMAIN g_score
       /\ FLess(g_score[e.node], e.g)

RECURSIVE Walk(_, _, _)
\* the nodes met when came_from is followed from v, for at most fuel steps
\* or until a node without a back-pointer
Walk(cf, v, fuel) ==
  IF v \notin DOMAIN cf \/ fuel = 0 THEN << v >>
  ELSE << v >> \o Walk(cf, cf[v], fuel - 1)

\* following came_from from v ends at the source, no node met twice
ReachesSource(v) ==
  LET w == Walk(came_from, v, Cardinality(DOMAIN came_from) + 1) IN
  /\ w[Len(w)] = source
  /\ \A i, j \in 1..Len(w) : w[i] = w[j] => i = j
  /\ \A i \in 1..(Len(w) - 1) : w[i] # source

\* C22: On a graph without negative weights the source never gets a
\* back-pointer, and from every node that has one - the target, when it is
\* popped, among them - the back-pointers lead to the source without
\* meeting a node twice; the search never ends in the reconstruction's
\* failure return nor hangs in it.
BackPointerChain ==
  NonNegative(graph) =>
    /\ outcome \notin {"hung", "raised"}
    /\ pc = "search" =>
         /\ source \notin DOMAIN came_from
         /\ \A v \in DOMAIN came_from : ReachesSource(v)
         /\ \A e \in PopCandidates(pq) :
              (e.node = target /\ ~Outdated(e)) => ReachesSource(target)
    /\ (Returned /\ path = None /\ InGraph) =>
         target \notin DOMAIN came_from /\ target # source

\* the target is about to be popped, three back-pointers away from the
\* source
BackPointerChainWitness ==
  /\ pc = "search"
  /\ NonNegative(graph)
  /\ \E e \in PopCandidates(pq) : e.node = target /\ ~Outdated(e)
  /\ target \in DOMAIN came_from
  /\ Len(Walk(came_from, target, Cardinality(DOMAIN came_from) + 1)) = 4

\* C25. Admissible fallback heuristic: during a call on a graph without
\* negative weights, for every node n of the graph such that n or the
\* target has no recorded coordinate, haversine_distance(n, target) does
\* not exceed the shortest-path distance from n to the target.
AdmissibleFallback ==
  (pc # "idle" /\ InGraph /\ NonNegative(graph)) =>
    \A n \in KeySet(graph) :
      (n \notin Range(CoordCities) \/ target \notin Range(CoordCities))
        => ~FLess(ShortestDistance(graph, n, target),
                  haversine_distance(n, target))

\* C26. Termination: a call of a_star on a graph without negative weights
\* that has entered its loop leaves it: it comes to a return statement,
\* raises, or - never, by C22 - hangs in the reconstruction; it does not
\* pop for ever.
Termination ==
  (pc = "search" /\ NonNegative(graph))
    ~> (pc = "done" /\ outcome # "hung")

\* a call on a graph with a cycle of zero-weight edges has left its loop
\* after expanding the two nodes of the cycle, with no path found
TerminationWitness ==
  /\ Returned /\ InGraph /\ NonNegative(graph)
  /\ Len(expanded) = 2
  /\ path = None
  /\ \E a, b \in Nodes(graph) :
       /\ a # b
       /\ HasEdge(graph, a, b) /\ HasEdge(graph, b, a)
       /\ EdgeWeight(graph, a, b) = Num(0)
       /\ EdgeWeight(graph, b, a) = Num(0)

\* C27. Uniform-heuristic case: for a target without a recorded
\* coordinate the heuristic is the sentinel for every node, the target
\* itself included, and on a graph without negative weights the distance a
\* call returns is the shortest-path distance from source to target
\* (+inf when there is no path).
UniformHeuristic ==
  (pc # "idle" /\ target \notin Range(CoordCities)) =>
    /\ \A n \in Nodes(graph) \cup {source, target} :
         haversine_distance(n, target) = Num(SENTINEL)
    /\ (Returned /\ InGraph /\ NonNegative(graph))
         => dist = ShortestDistance(graph, source, target)

\* the target has no coordinate, the source has an edge to it, and the
\* call returned a cheaper path through a third node
UniformHeuristicWitness ==
  /\ Returned /\ InGraph /\ NonNegative(graph)
  /\ target \notin Range(CoordCities)
  /\ HasEdge(graph, source, target)
  /\ Len(path) = 3
  /\ FLess(dist, EdgeWeight(graph, source, target))

\* C28. Single expansion: during a call on a graph without negative
\* weights no node is expanded (popped as a current entry and its
\* neighbors relaxed) more than once.
SingleExpansion ==
  NonNegative(graph) =>
    \A i, j \in 1..Len(expanded) : expanded[i] = expanded[j] => i = j

\* C29. Trivial query: a call with the source as the target, a key of the
\* graph, returns distance 0 and the path of that one node, and has relaxed
\* no edge: no node was expanded, nothing was pushed after the first
\* entry, no back-pointer was set and no score other than the source's own
\* is finite.
TrivialQuery ==
  (Returned /\ InGraph /\ source = target) =>
    /\ dist = Num(0)
    /\ path = << source >>
    /\ expanded = << >>
    /\ counter = 0
    /\ came_from = EmptyDict
    /\ \A n \in KeySet(graph) \ {source} : g_score[n] = PosInf

\* a node without a recorded coordinate that has edges of its own was
\* asked for as source and target, and the call has returned
TrivialQueryWitness ==
  /\ Returned /\ InGraph /\ source = target
  /\ source \notin Range(CoordCities)
  /\ Adjacency(graph, source) # << >>
  /\ path = << source >>

(***************************************************************************)
(* Further properties of the builder, under SpecBuild.                     *)
(***************************************************************************)
\* the i-th item of c's adjacency in g is an edge the builder keeps: its
\* neighbor is a key of g and float() accepts its weight
ValidEdge(g, c, i) ==
  /\ g.adj[c][i][1] \in KeySet(g)
  /\ ToFloat(g.adj[c][i][2]).ok

HasValidEdge(g, c) == \E i \in 1..Len(g.adj[c]) : ValidEdge(g, c, i)

\* a kept edge of another node points to c
PointedTo(g, c) ==
  \E m \in KeySet(g) \ {c} :
    \E i \in 1..Len(g.adj[m]) : ValidEdge(g, m, i) /\ g.adj[m][i][1] = c

BuilderIdempotence ==
  built =>
    /\ create_city_graph(city_graph, AllowedNone) = city_graph
    /\ create_city_graph(city_graph, allowed_cities) = city_graph

\* the first build changed the source (it dropped an edge or converted a
\* weight) and its result holds a node with an empty adjacency next to a
\* node with edges
BuilderIdempotenceWitness ==
  /\ built
  /\ city_graph # original_graph
  /\ \E n \in KeySet(city_graph) : city_graph.adj[n] = << >>
  /\ \E n \in KeySet(city_graph) : Len(city_graph.adj[n]) > 1
  /\ create_city_graph(city_graph, AllowedNone) = city_graph

\* C24. Builder frame effect: from the call of create_city_graph on, with or
\* without an allowed list, the source graph read through its dict objects
\* has the keys, neighbors and weights it had before the call, also after
\* the caller has changed adjacencies of the returned graph; the returned
\* graph is made of dict objects that are none of the source's; and what
\* the call returns is the graph the builder computes from the source.
BuilderFrameEffect ==
  mem.src # 0 =>
    /\ GraphAt(mem, mem.src) = original_graph
    /\ built =>
         /\ mem.res # 0
         /\ ObjectsOf(mem, mem.res) \cap ObjectsOf(mem, mem.src) = {}
         /\ mem.changes = 0 => GraphAt(mem, mem.res) = city_graph

\* the caller has changed, in the returned graph, the adjacency of a city
\* whose adjacency the builder had taken over item by item from the source
BuilderFrameEffectWitness ==
  /\ built
  /\ mem.src # 0
  /\ mem.changes = MaxChanges
  /\ \E c \in KeySet(city_graph) :
       /\ c \in KeySet(original_graph)
       /\ city_graph.adj[c] # << >>
       /\ city_graph.adj[c] = original_graph.adj[c]
       /\ GraphAt(mem, mem.res).adj[c] # city_graph.adj[c]

====
